---- MODULE Spec2Model ----
(***************************************************************************)
(* A model of the NERxiv / ragxiv pipeline:                                *)
(*   I    ArxivFetcher.fetch          (src/ragxiv/text/arxiv_extractor.py) *)
(*   II   LLMGenerator.generate       (src/ragxiv/generator.py,            *)
(*                                     src/scesmata/generator.py)          *)
(*   III  prompt / prompt_all         (src/ragxiv/cli/cli.py,              *)
(*                                     src/nerxiv/cli/run_prompt.py)       *)
(*   IV   TextExtractor.delete_references                                  *)
(*   V    CustomRetriever             (src/ragxiv/retriever.py)            *)
(*   VI   arxiv_fetch_and_extract, ArxivFetcher.download_pdf               *)
(*   VII  Chunker.chunk_text          (src/ragxiv/chunker.py)              *)
(*   VIII the time keeping of prompt_all (src/nerxiv/cli/cli.py)           *)
(*   IX   two writers of one run log  (src/nerxiv/cli/run_prompt.py)       *)
(* Each part has its own specification over the shared variables.          *)
(***************************************************************************)
EXTENDS Integers, Sequences, FiniteSets, TLC

(***************************************************************************)
(* Bounds of the model.                                                    *)
(***************************************************************************)
MaxCatalog == 3
MaxCalls == 2
MaxResults == 2
MaxBatch == 2
MaxGenCalls == 2
MaxCommands == 3
MaxBatches == 2
MaxDeletes == 1

(***************************************************************************)
(* The state.                                                              *)
(***************************************************************************)
\* State of the incremental catalog fetch (Part I).
VARIABLES
    catalog,        \* the remote feed, newest first: a sequence of entries
    ledgerExists,   \* fetched_ids_file.exists()
    ledgerFile,     \* the lines of the ledger file (without their "\n")
    fpc,            \* position of the fetch call: idle, paging, returned, raised (transport),
                    \* invalid (ValidationError)
    max_results,    \* self.max_results of the current call
    batch_size,     \* batch_size argument of the current call
    fetched_ids,    \* local set fetched_ids
    new_papers,     \* local list new_papers (the ids of the ArxivPaper objects)
    start_index,    \* local start_index
    requests,       \* the page requests made by the current call: <<start, max_results>>
    exhausted,      \* the current call ended on a page with zero entries
    result,         \* the list returned by the last returned call
    flog,           \* log events of the current call
    calls,          \* number of fetch calls begun
    ledgerAtStart,  \* history: ledger file content when the current call began
    existsAtStart,  \* history: ledger file existence when the current call began
    ledgerWrites,   \* history: number of times the current call opened the ledger for writing
    prevResult,     \* history: ids returned by the previous returned call
    written         \* history: every line ever written to the ledger file

fetchVars == <<catalog, ledgerExists, ledgerFile, fpc, max_results, batch_size,
               fetched_ids, new_papers, start_index, requests, exhausted, result,
               flog, calls, ledgerAtStart, existsAtStart, ledgerWrites, prevResult,
               written>>

\* State of the generation step (Part II).
VARIABLES
    gpc,            \* position of the generate call: NoCall (none yet), Idle (entered),
                    \* BudgetChecked, Rejected (returned ""), Invoked, Cleaned, Done (returned)
    gmodel,         \* self.llm.model
    gtokenizer,     \* AutoTokenizer.from_pretrained succeeds for this call
    gprompt,        \* the prompt argument: [empty, tokens]
    gcheck,         \* the value _check_tokens_limit returned
    graw,           \* what self.llm.invoke(prompt) returned
    ganswer,        \* the value generate returns
    invocations,    \* number of self.llm.invoke calls of this generate call
    glog,           \* log events of this generate call
    gcalls          \* number of generate calls begun

genVars == <<gpc, gmodel, gtokenizer, gprompt, gcheck, graw, ganswer, invocations,
             glog, gcalls>>

\* State of the orchestrator and of the run logs (Part III).
VARIABLES
    impl,           \* which orchestrator runs: "ragxiv" (cli.py inline) or "nerxiv" (run_prompt_paper)
    fileExists,     \* [paper -> the file exists]
    fileDir,        \* [paper -> number of model/ folders between data_path and the file]
    h5text,         \* [paper -> state of <arxiv_id>/arxiv_paper/text in the HDF5 file]
    runsOf,         \* [paper -> the raw_llm_answers group: run name -> run entry]
    cpc,            \* position of the command: idle, paper, generated, stored, moved, done, aborted
    cmd,            \* the running command: prompt or prompt_all
    cfg,            \* its options: retriever_model, n_top_chunks, model, query
    papers,         \* prompt_all: the papers of the listing not yet started
    cur,            \* the paper being processed
    context,        \* the text returned by get_relevant_chunks
    answer,         \* the answer returned by generate
    run_id,         \* the name of the run entry created for the current paper
    echoes,         \* click.echo / logger output of the current command
    commands,       \* number of commands started
    deletes,        \* number of out-of-band deletions of run entries
    touched,        \* history: papers listed, opened, written or moved by the current command
    attempted,      \* history: papers whose processing the current command started
    listing,        \* history: the listing of the current prompt_all
    runsBefore,     \* history: run entries of the current paper when its processing started
    invokedModel,   \* history: the generative model was invoked for the current paper
    movedFrom,      \* history: fileDir of the current paper before its relocation, -1 if not moved
    atMove,         \* history: the run entry as it was when the file was relocated
    everAssigned,   \* history: [paper -> run names ever created]
    appends,        \* history: [paper -> number of run entries created]
    deleted         \* history: [paper -> a run entry was deleted out-of-band]

promptVars == <<impl, fileExists, fileDir, h5text, runsOf, cpc, cmd, cfg, papers, cur,
                context, answer, run_id, echoes, commands, deletes, touched, attempted,
                listing, runsBefore, invokedModel, movedFrom, atMove, everAssigned,
                appends, deleted>>

\* State of the reference stripping of the text extractor (Part IV).
VARIABLES
    dr_pc,          \* "text" (extracted), "once" / "twice" (delete_references applied)
    dr_text,        \* the extracted text, as its sequence of lines
    dr_once,        \* delete_references(text)
    dr_twice        \* delete_references(delete_references(text))

textVars == <<dr_pc, dr_text, dr_once, dr_twice>>

\* State of the retriever (Part V).
VARIABLES
    rpc,            \* "built" (no call yet), "returned" (get_relevant_chunks returned)
    query_kwarg,    \* the query keyword the orchestrator passed to CustomRetriever(...)
    self_query,     \* self.query of the retriever
    encoded_query,  \* the text get_relevant_chunks encoded as the query ("none": none yet)
    r_chunks,       \* the chunk list handed to get_relevant_chunks (page_content of each)
    similarity,     \* [chunk text -> cosine similarity of its embedding to the query]
    r_n_top_chunks, \* the n_top_chunks argument
    ranked,         \* sorted_similarities.indices
    relevant,       \* the value get_relevant_chunks returned
    rlog            \* log events of the call

retrVars == <<rpc, query_kwarg, self_query, encoded_query, r_chunks, similarity,
              r_n_top_chunks, ranked, relevant, rlog>>

\* State of arxiv_fetch_and_extract around the fetch (Part VI).
VARIABLES
    i_pc,           \* position of the loop over the fetched papers: idle, loop (before
                    \* download_pdf), downloaded (before get_text), returned
    i_call,         \* the fetch call whose result the loop works on
    i_idx,          \* number of papers of that result the loop is done with
    pdf_path,       \* the value download_pdf returned: "None" or <<folder, id, ".pdf">>
    paper_text,     \* the text attribute of each returned paper ("" by default)
    ilog,           \* log events of the function outside fetch()
    dl_lines,       \* the lines the last download_pdf call logged
    tried,          \* history: ids for which a download was attempted
    failed          \* history: ids whose download or text extraction failed

ingestVars == <<i_pc, i_call, i_idx, pdf_path, paper_text, ilog, dl_lines, tried, failed>>

\* State of the chunker (Part VII).
VARIABLES
    ch_pc,          \* "built" (Chunker constructed), "chunked" (chunk_text returned)
    ch_text,        \* self.text, a sequence of characters
    chunk_size,     \* the chunk_size argument
    chunk_overlap,  \* the chunk_overlap argument
    ch_chunks,      \* page_content of the returned chunks
    ch_log          \* log events of the call

chunkVars == <<ch_pc, ch_text, chunk_size, chunk_overlap, ch_chunks, ch_log>>

\* State of the time keeping of prompt_all (Part VIII).
VARIABLES
    t_pc,           \* idle, loop (between two papers), paper (inside run_prompt_paper),
                    \* done, aborted
    now,            \* what time.time() returns
    start_time,     \* local start_time of prompt_all
    paper_time,     \* local paper_time of prompt_all, the argument of the next call
    t_left,         \* number of papers of the listing not yet processed
    t_arg,          \* the paper_time argument of the running run_prompt_paper call
    began,          \* history: time.time() when the running call was entered
    timings         \* history: per stored run, the argument, the times of entry and
                    \* of completion, and the elapsed_time attribute

timeVars == <<t_pc, now, start_time, paper_time, t_left, t_arg, began, timings>>

\* State of two writers appending to the run log of one document (Part IX).
VARIABLES
    a_lock,         \* the HDF5 library locks the file while it is open for writing
    a_log,          \* the raw_llm_answers group of the file: run name -> writer of the entry
    a_pc,           \* [writer -> idle, open, counted, created, raised]
    a_run_id,       \* [writer -> the run_id it computed, "none" before]
    a_started,      \* [writer -> number of appends it started]
    a_overlap,      \* history: [writer -> another writer had the file open when it opened]
    a_attempts      \* history: the run ids computed, in order, with writer and overlap

appendVars == <<a_lock, a_log, a_pc, a_run_id, a_started, a_overlap, a_attempts>>

\* The variables of the parts a step does not belong to.
notFetch == <<genVars, promptVars, textVars, retrVars, ingestVars, chunkVars, timeVars, appendVars>>
notGen == <<fetchVars, promptVars, textVars, retrVars, ingestVars, chunkVars, timeVars, appendVars>>
notPrompt == <<fetchVars, genVars, textVars, retrVars, ingestVars, chunkVars, timeVars, appendVars>>
notText == <<fetchVars, genVars, promptVars, retrVars, ingestVars, chunkVars, timeVars, appendVars>>
notRetr == <<fetchVars, genVars, promptVars, textVars, ingestVars, chunkVars, timeVars, appendVars>>
notIngest == <<genVars, promptVars, textVars, retrVars, chunkVars, timeVars, appendVars>>
notChunk == <<fetchVars, genVars, promptVars, textVars, retrVars, ingestVars, timeVars, appendVars>>

notTime == <<fetchVars, genVars, promptVars, textVars, retrVars, ingestVars, chunkVars, appendVars>>

notAppend == <<fetchVars, genVars, promptVars, textVars, retrVars, ingestVars, chunkVars,
               timeVars>>

vars == <<fetchVars, genVars, promptVars, textVars, retrVars, ingestVars, chunkVars,
          timeVars, appendVars>>

(***************************************************************************)
(* Part I - the incremental catalog fetch, ArxivFetcher.fetch.             *)
(***************************************************************************)
\* The identifier part of an entry's <id> URL (what follows the last "/").
Tails == {"a1", "a2", "a1.pdf"}

\* The catalog entries the feed can serve.  host: the URL contains "arxiv.org";
\* title: "Error" stands for any title containing "Error"; summary: the entry
\* has a <summary> element (paper.get("summary") is not None).
EntryPool ==
    {[title |-> "T", host |-> TRUE, tail |-> t, summary |-> TRUE] : t \in Tails}
    \cup {[title |-> "Error", host |-> TRUE, tail |-> "a2", summary |-> TRUE],
          [title |-> "T", host |-> FALSE, tail |-> "a2", summary |-> TRUE]}

\* Entries with a valid <id> and no <summary> element.
NoSummaryPool == {[title |-> "T", host |-> TRUE, tail |-> t, summary |-> FALSE] : t \in {"a1", "a2"}}

\* ArxivPaper(..., summary=paper.get("summary"), ...): summary is a required
\* str field, so the construction validates only when the entry has one.
ArxivPaperValidates(paper) == paper.summary

\* All sequences over S of length at most n.
SeqsUpTo(S, n) == UNION {[1..k -> S] : k \in 0..n}

\* url_id.split("/")[-1].replace(".pdf", "")
ArxivIdOf(tail) == IF tail = "a1.pdf" THEN "a1" ELSE tail

\* set(line.strip() for line in f if line.strip()): blank lines are dropped.
LoadLedger(exists, file) ==
    IF exists THEN {file[i] : i \in {j \in DOMAIN file : file[j] # ""}} ELSE {}

Min(a, b) == IF a < b THEN a ELSE b

\* The entries the catalog returns for start=<start>&max_results=<size>.
Page(cat, start, size) ==
    IF start >= Len(cat) THEN <<>>
    ELSE SubSeq(cat, start + 1, Min(start + size, Len(cat)))

\* A faulty loop: an entry with an error title or an invalid id ends the
\* processing of its page.
RECURSIVE ProcessEntriesStoppingAtError(_, _, _)
ProcessEntriesStoppingAtError(entries, st, n) ==
    IF entries = <<>> THEN st
    ELSE LET paper == Head(entries)
             arxiv_id == ArxivIdOf(paper.tail)
         IN  IF paper.title = "Error" \/ ~paper.host
                THEN [st EXCEPT !.log = Append(@, <<"error", "Entry dropped">>)]
             ELSE IF arxiv_id \in st.fetched
                THEN ProcessEntriesStoppingAtError(Tail(entries), st, n)
             ELSE IF ~ArxivPaperValidates(paper)
                THEN [st EXCEPT !.raised = TRUE]
             ELSE LET st2 == [st EXCEPT !.fetched = @ \cup {arxiv_id},
                                        !.new = Append(@, arxiv_id),
                                        !.log = Append(@, <<"info", "Paper fetched from arXiv">>)]
                  IN  IF Len(st2.new) >= n THEN st2
                      ELSE ProcessEntriesStoppingAtError(Tail(entries), st2, n)

\* The for-loop over the entries of one page (lines 121-186): st carries the
\* locals fetched_ids, new_papers and the log; raised: the construction of an
\* ArxivPaper raised a ValidationError, which ends the loop and leaves fetch().
RECURSIVE ProcessEntries(_, _, _)
ProcessEntries(entries, st, n) ==
    IF entries = <<>> THEN st
    ELSE LET paper == Head(entries)
             rest == Tail(entries)
             arxiv_id == ArxivIdOf(paper.tail)
         IN  IF paper.title = "Error"
                THEN ProcessEntries(rest,
                        [st EXCEPT !.log = Append(@, <<"error", "Error fetching the paper">>)], n)
             ELSE IF ~paper.host
                THEN ProcessEntries(rest,
                        [st EXCEPT !.log = Append(@, <<"error", "Paper without a valid URL id">>)], n)
             ELSE IF arxiv_id \in st.fetched
                THEN ProcessEntries(rest, st, n)
             ELSE IF ~ArxivPaperValidates(paper)
                THEN [st EXCEPT !.raised = TRUE]
             ELSE LET st2 == [st EXCEPT !.fetched = @ \cup {arxiv_id},
                                        !.new = Append(@, arxiv_id),
                                        !.log = Append(@, <<"info", "Paper fetched from arXiv">>)]
                  IN  IF Len(st2.new) >= n THEN st2
                      ELSE ProcessEntries(rest, st2, n)

\* A faulty save: only the first new id reaches the file.
SaveLedgerFirstOnly(file, new) == IF new # <<>> THEN Append(file, new[1]) ELSE file

\* Lines 190-194: append the new ids, one per line, when there are any.
SaveLedger(file, new) == IF new # <<>> THEN file \o new ELSE file

SeqToSet(s) == {s[i] : i \in DOMAIN s}

FetchInitFor(catalogs, ledgers) ==
    /\ catalog \in catalogs
    /\ ledgerExists \in ledgers
    /\ ledgerFile = IF ledgerExists THEN <<"a2", "">> ELSE <<>>
    /\ fpc = "idle"
    /\ max_results = 1
    /\ batch_size = 1
    /\ fetched_ids = {}
    /\ new_papers = <<>>
    /\ start_index = 0
    /\ requests = <<>>
    /\ exhausted = FALSE
    /\ result = <<>>
    /\ flog = <<>>
    /\ calls = 0
    /\ ledgerAtStart = ledgerFile
    /\ existsAtStart = ledgerExists
    /\ ledgerWrites = 0
    /\ prevResult = {}
    /\ written = SeqToSet(ledgerFile)

\* fetch() is entered: lines 68-73 and 93-94.
FetchBegin ==
    /\ fpc \in {"idle", "returned", "raised", "invalid"}
    /\ calls < MaxCalls
    /\ \E n \in 1..MaxResults, b \in 1..MaxBatch :
          /\ max_results' = n
          /\ batch_size' = b
    /\ fetched_ids' = LoadLedger(ledgerExists, ledgerFile)
    /\ new_papers' = <<>>
    /\ start_index' = 0
    /\ requests' = <<>>
    /\ exhausted' = FALSE
    /\ flog' = <<>>
    /\ calls' = calls + 1
    /\ ledgerAtStart' = ledgerFile
    /\ existsAtStart' = ledgerExists
    /\ ledgerWrites' = 0
    /\ prevResult' = IF fpc = "returned" THEN SeqToSet(result) ELSE prevResult
    /\ fpc' = "paging"
    /\ UNCHANGED <<catalog, ledgerExists, ledgerFile, result, written>>
    /\ UNCHANGED notFetch

\* A faulty iteration: the page asks for batch_size entries whatever the number
\* of documents still wanted.
FetchPageFullBatch ==
    /\ fpc = "paging"
    /\ Len(new_papers) < max_results
    /\ LET entries == Page(catalog, start_index, batch_size)
           st == ProcessEntries(entries,
                    [fetched |-> fetched_ids, new |-> new_papers, log |-> flog,
                     raised |-> FALSE],
                    max_results)
       IN  /\ entries # <<>>
           /\ ~st.raised
           /\ requests' = Append(requests, <<start_index, batch_size>>)
           /\ fetched_ids' = st.fetched
           /\ new_papers' = st.new
           /\ flog' = st.log
           /\ start_index' = start_index + batch_size
    /\ UNCHANGED <<catalog, ledgerExists, ledgerFile, fpc, max_results, batch_size,
                   exhausted, result, calls, ledgerAtStart, existsAtStart,
                   ledgerWrites, prevResult, written>>
    /\ UNCHANGED notFetch

\* A faulty iteration: start_index is not advanced, the next page is the same.
FetchPageNoAdvance ==
    /\ fpc = "paging"
    /\ Len(new_papers) < max_results
    /\ LET remaining == max_results - Len(new_papers)
           current_batch_size == Min(batch_size, remaining)
           entries == Page(catalog, start_index, current_batch_size)
           st == ProcessEntries(entries,
                    [fetched |-> fetched_ids, new |-> new_papers, log |-> flog,
                     raised |-> FALSE],
                    max_results)
       IN  /\ entries # <<>>
           /\ ~st.raised
           /\ requests' = Append(requests, <<start_index, current_batch_size>>)
           /\ fetched_ids' = st.fetched
           /\ new_papers' = st.new
           /\ flog' = st.log
    /\ UNCHANGED <<catalog, ledgerExists, ledgerFile, fpc, max_results, batch_size,
                   start_index, exhausted, result, calls, ledgerAtStart, existsAtStart,
                   ledgerWrites, prevResult, written>>
    /\ UNCHANGED notFetch

\* One iteration of the while loop whose page has entries (lines 95-188).
FetchPage ==
    /\ fpc = "paging"
    /\ Len(new_papers) < max_results
    /\ LET remaining == max_results - Len(new_papers)
           current_batch_size == Min(batch_size, remaining)
           entries == Page(catalog, start_index, current_batch_size)
           st == ProcessEntries(entries,
                    [fetched |-> fetched_ids, new |-> new_papers, log |-> flog,
                     raised |-> FALSE],
                    max_results)
       IN  /\ entries # <<>>
           /\ ~st.raised
           /\ requests' = Append(requests, <<start_index, current_batch_size>>)
           /\ fetched_ids' = st.fetched
           /\ new_papers' = st.new
           /\ flog' = st.log
           /\ start_index' = start_index + batch_size
    /\ UNCHANGED <<catalog, ledgerExists, ledgerFile, fpc, max_results, batch_size,
                   exhausted, result, calls, ledgerAtStart, existsAtStart,
                   ledgerWrites, prevResult, written>>
    /\ UNCHANGED notFetch

\* One iteration of the while loop in which the construction of an ArxivPaper
\* raises (lines 164-179): the ValidationError is caught nowhere and leaves
\* fetch(); the entries before it have been processed, the ledger is not written.
FetchPageInvalid ==
    /\ fpc = "paging"
    /\ Len(new_papers) < max_results
    /\ LET remaining == max_results - Len(new_papers)
           current_batch_size == Min(batch_size, remaining)
           entries == Page(catalog, start_index, current_batch_size)
           st == ProcessEntries(entries,
                    [fetched |-> fetched_ids, new |-> new_papers, log |-> flog,
                     raised |-> FALSE],
                    max_results)
       IN  /\ entries # <<>>
           /\ st.raised
           /\ requests' = Append(requests, <<start_index, current_batch_size>>)
           /\ fetched_ids' = st.fetched
           /\ new_papers' = st.new
           /\ flog' = st.log
    /\ fpc' = "invalid"
    /\ UNCHANGED <<catalog, ledgerExists, ledgerFile, max_results, batch_size,
                   start_index, exhausted, result, calls, ledgerAtStart,
                   existsAtStart, ledgerWrites, prevResult, written>>
    /\ UNCHANGED notFetch

\* One iteration of the while loop whose page has no entries (lines 112-115).
FetchEmptyPage ==
    /\ fpc = "paging"
    /\ Len(new_papers) < max_results
    /\ LET remaining == max_results - Len(new_papers)
           current_batch_size == Min(batch_size, remaining)
           entries == Page(catalog, start_index, current_batch_size)
       IN  /\ entries = <<>>
           /\ requests' = Append(requests, <<start_index, current_batch_size>>)
    /\ flog' = Append(flog, <<"info", "No entries found in the response">>)
    /\ exhausted' = TRUE
    /\ result' = <<>>
    /\ fpc' = "returned"
    /\ UNCHANGED <<catalog, ledgerExists, ledgerFile, max_results, batch_size,
                   fetched_ids, new_papers, start_index, calls, ledgerAtStart,
                   existsAtStart, ledgerWrites, prevResult, written>>
    /\ UNCHANGED notFetch

\* A faulty failure path: the ids collected so far are flushed to the ledger
\* before the exception leaves fetch().
FetchPageRaiseFlushing ==
    /\ fpc = "paging"
    /\ Len(new_papers) < max_results
    /\ requests' = Append(requests,
          <<start_index, Min(batch_size, max_results - Len(new_papers))>>)
    /\ ledgerFile' = ledgerFile \o new_papers
    /\ ledgerExists' = (ledgerExists \/ new_papers # <<>>)
    /\ ledgerWrites' = IF new_papers # <<>> THEN ledgerWrites + 1 ELSE ledgerWrites
    /\ written' = written \cup SeqToSet(new_papers)
    /\ fpc' = "raised"
    /\ UNCHANGED <<catalog, max_results, batch_size, fetched_ids, new_papers,
                   start_index, exhausted, result, flog, calls, ledgerAtStart,
                   existsAtStart, prevResult>>
    /\ UNCHANGED notFetch

\* urlopen / read / xmltodict.parse raises on this page (lines 107-109): the
\* exception leaves fetch().
FetchPageRaise ==
    /\ fpc = "paging"
    /\ Len(new_papers) < max_results
    /\ requests' = Append(requests,
          <<start_index, Min(batch_size, max_results - Len(new_papers))>>)
    /\ fpc' = "raised"
    /\ UNCHANGED <<catalog, ledgerExists, ledgerFile, max_results, batch_size,
                   fetched_ids, new_papers, start_index, exhausted, result, flog,
                   calls, ledgerAtStart, existsAtStart, ledgerWrites, prevResult,
                   written>>
    /\ UNCHANGED notFetch

\* The loop condition is false: lines 190-195.
FetchSave ==
    /\ fpc = "paging"
    /\ Len(new_papers) >= max_results
    /\ ledgerFile' = SaveLedger(ledgerFile, new_papers)
    /\ ledgerExists' = (ledgerExists \/ new_papers # <<>>)
    /\ ledgerWrites' = IF new_papers # <<>> THEN ledgerWrites + 1 ELSE ledgerWrites
    /\ written' = written \cup SeqToSet(SaveLedger(<<>>, new_papers))
    /\ result' = new_papers
    /\ fpc' = "returned"
    /\ UNCHANGED <<catalog, max_results, batch_size, fetched_ids, new_papers,
                   start_index, requests, exhausted, flog, calls, ledgerAtStart,
                   existsAtStart, prevResult>>
    /\ UNCHANGED notFetch

(***************************************************************************)
(* Part II - the generation step, LLMGenerator (src/ragxiv/generator.py).  *)
(***************************************************************************)
\* self._huggingface_model_map: the declared context window of each known model.
TokensLimitDeepseek == 131072
TokensLimitQwen == 40960
HuggingfaceModelMap ==
    [m \in {"deepseek-r1", "llama3.1", "llama3.1:70b", "qwen3:32b"} |->
        IF m = "qwen3:32b" THEN TokensLimitQwen ELSE TokensLimitDeepseek]

\* The generation models a caller may name; "gpt-oss:20b" (the default of
\* run_prompt_paper) has no entry in the map.
Models == {"deepseek-r1", "qwen3:32b", "gpt-oss:20b"}

\* len(tokenizer(prompt)["input_ids"]) for the prompts of the model: counts on
\* both sides of each declared limit.
TokenCounts == {1, TokensLimitQwen, TokensLimitQwen + 1,
                TokensLimitDeepseek, TokensLimitDeepseek + 1}

\* A prompt is the pair (is it the empty string, its token count); the empty
\* string tokenizes to nothing or to the special tokens only.
Prompts == [empty : {FALSE}, tokens : TokenCounts]
           \cup [empty : {TRUE}, tokens : {0, 1}]

\* Answers are sequences of pieces: plain text ("model", "Fe2O3", "so"), the
\* reasoning markers, and the answer marker "\n\nAnswer: " written in the
\* pattern's letter case ("ANS") or in another letter case ("ans").
EmptyAnswer == <<>>
RawAnswers ==
    {<<>>, <<"model">>, <<"Fe2O3">>,
     <<"<think>", "so", "</think>", "model">>,
     <<"so", "ANS", "model">>,
     <<"so", "ans", "Fe2O3">>,
     <<"<think>", "so", "</think>", "so", "ANS", "Fe2O3">>}

\* A faulty budget check: a prompt of exactly the declared size is rejected.
CheckTokensLimitOffByOne(model, tokenizer, prompt) ==
    IF model \notin DOMAIN HuggingfaceModelMap \/ ~tokenizer
        THEN [ok |-> TRUE, log |-> <<<<"critical", "Failed to load the tokenizer">>>>]
    ELSE IF prompt.tokens >= HuggingfaceModelMap[model]
        THEN [ok |-> FALSE, log |-> <<<<"critical", "Prompt is too long">>>>]
    ELSE [ok |-> TRUE, log |-> <<>>]

\* _check_tokens_limit (lines 65-91): the value returned and the events logged.
CheckTokensLimit(model, tokenizer, prompt) ==
    IF model \notin DOMAIN HuggingfaceModelMap \/ ~tokenizer
        THEN [ok |-> TRUE, log |-> <<<<"critical", "Failed to load the tokenizer">>>>]
    ELSE IF prompt.tokens > HuggingfaceModelMap[model]
        THEN [ok |-> FALSE, log |-> <<<<"critical", "Prompt is too long">>>>]
    ELSE [ok |-> TRUE, log |-> <<>>]

\* Index of the first element of s at or after i that is in S, 0 if none.
RECURSIVE FirstIn(_, _, _)
FirstIn(s, i, S) ==
    IF i > Len(s) THEN 0
    ELSE IF s[i] \in S THEN i
    ELSE FirstIn(s, i + 1, S)

\* _delete_thinking (line 125): re.sub(r"<think>.*?</think>\n*", "", answer):
\* every <think> block up to the nearest </think> is removed.
RECURSIVE DeleteThinking(_)
DeleteThinking(text) ==
    LET open == FirstIn(text, 1, {"<think>"})
        close == IF open = 0 THEN 0 ELSE FirstIn(text, open + 1, {"</think>"})
    IN  IF open = 0 \/ close = 0 THEN text
        ELSE SubSeq(text, 1, open - 1)
             \o DeleteThinking(SubSeq(text, close + 1, Len(text)))

\* re.sub(del_regex, "", answer) without IGNORECASE: every marker written in
\* the pattern's letter case is deleted.
RECURSIVE DeleteMarker(_)
DeleteMarker(text) ==
    IF text = <<>> THEN <<>>
    ELSE IF Head(text) = "ANS" THEN DeleteMarker(Tail(text))
    ELSE <<Head(text)>> \o DeleteMarker(Tail(text))

\* _clean_answer (lines 127-144) with the default regex and del_regex.
CleanAnswer(text) ==
    LET start == FirstIn(text, 1, {"ANS", "ans"})
    IN  IF start # 0
           THEN DeleteMarker(SubSeq(text, start, Len(text)))
           ELSE text

\* Line 112: the guard of generate.
GenerateRejects(check, prompt) == ~check \/ prompt.empty

\* generate (lines 93-147) as a function of its inputs and of what the model
\* would answer: the value returned and whether the model was invoked.
Generate(model, tokenizer, prompt, raw) ==
    LET check == CheckTokensLimit(model, tokenizer, prompt)
    IN  IF GenerateRejects(check.ok, prompt)
           THEN [answer |-> EmptyAnswer, invoked |-> FALSE, log |-> check.log]
           ELSE [answer |-> CleanAnswer(DeleteThinking(raw)), invoked |-> TRUE,
                 log |-> check.log]

GenInitFor(m) ==
    /\ gpc = "NoCall"
    /\ gmodel = m
    /\ gtokenizer = TRUE
    /\ gprompt = [empty |-> TRUE, tokens |-> 0]
    /\ gcheck = TRUE
    /\ graw = <<>>
    /\ ganswer = <<>>
    /\ invocations = 0
    /\ glog = <<>>
    /\ gcalls = 0

\* generate(prompt) is called on a generator built for some model.
GenCall ==
    /\ gpc \in {"NoCall", "Rejected", "Done"}
    /\ gcalls < MaxGenCalls
    /\ gmodel' \in Models
    /\ gtokenizer' \in BOOLEAN
    /\ gprompt' \in Prompts
    /\ gcheck' = TRUE
    /\ graw' = <<>>
    /\ ganswer' = <<>>
    /\ invocations' = 0
    /\ glog' = <<>>
    /\ gcalls' = gcalls + 1
    /\ gpc' = "Idle"
    /\ UNCHANGED notGen

\* Line 112, first operand: self._check_tokens_limit(prompt=prompt).
GenCheckTokens ==
    /\ gpc = "Idle"
    /\ LET check == CheckTokensLimit(gmodel, gtokenizer, gprompt)
       IN  /\ gcheck' = check.ok
           /\ glog' = glog \o check.log
    /\ gpc' = "BudgetChecked"
    /\ UNCHANGED <<gmodel, gtokenizer, gprompt, graw, ganswer, invocations, gcalls>>
    /\ UNCHANGED notGen

\* Lines 112-113: return "" (the call is over).
GenReject ==
    /\ gpc = "BudgetChecked"
    /\ GenerateRejects(gcheck, gprompt)
    /\ ganswer' = EmptyAnswer
    /\ gpc' = "Rejected"
    /\ UNCHANGED <<gmodel, gtokenizer, gprompt, gcheck, graw, invocations, glog, gcalls>>
    /\ UNCHANGED notGen

\* A faulty generate that invokes the model again after an invocation.
GenInvokeRetrying ==
    /\ gpc \in {"BudgetChecked", "Invoked"}
    /\ ~GenerateRejects(gcheck, gprompt)
    /\ graw' \in RawAnswers
    /\ invocations' = invocations + 1
    /\ gpc' = "Invoked"
    /\ UNCHANGED <<gmodel, gtokenizer, gprompt, gcheck, ganswer, glog, gcalls>>
    /\ UNCHANGED notGen

\* Line 146: self.llm.invoke(prompt).
GenInvoke ==
    /\ gpc = "BudgetChecked"
    /\ ~GenerateRejects(gcheck, gprompt)
    /\ graw' \in RawAnswers
    /\ invocations' = invocations + 1
    /\ gpc' = "Invoked"
    /\ UNCHANGED <<gmodel, gtokenizer, gprompt, gcheck, ganswer, glog, gcalls>>
    /\ UNCHANGED notGen

\* Lines 146-147: _delete_thinking, then _clean_answer.
GenClean ==
    /\ gpc = "Invoked"
    /\ ganswer' = CleanAnswer(DeleteThinking(graw))
    /\ gpc' = "Cleaned"
    /\ UNCHANGED <<gmodel, gtokenizer, gprompt, gcheck, graw, invocations, glog, gcalls>>
    /\ UNCHANGED notGen

\* Line 147: the cleaned answer is returned to the caller.
GenReturn ==
    /\ gpc = "Cleaned"
    /\ gpc' = "Done"
    /\ UNCHANGED <<gmodel, gtokenizer, gprompt, gcheck, graw, ganswer, invocations,
                   glog, gcalls>>
    /\ UNCHANGED notGen

(***************************************************************************)
(* Part IIb - the earlier LLMGenerator of src/scesmata/generator.py, on    *)
(* the variables of Part II.                                               *)
(***************************************************************************)
\* self._huggingface_model_map of scesmata (lines 17-20).
TokensLimitLlama3 == 8192
ScesmataModelMap ==
    [m \in {"deepseek-r1", "llama3"} |->
        IF m = "llama3" THEN TokensLimitLlama3 ELSE TokensLimitDeepseek]

\* The models a caller may name; "llama3.1" has no entry in this map.
ScesmataModels == {"deepseek-r1", "llama3", "llama3.1"}

ScesmataPrompts ==
    [empty : {FALSE}, tokens : {1, TokensLimitLlama3, TokensLimitLlama3 + 1}]
    \cup [empty : {TRUE}, tokens : {0, 1}]

\* _check_tokens_limit (lines 25-36): no try/except. Unpacking the None that
\* .get returns for an unknown model raises TypeError; a tokenizer that
\* cannot be loaded raises OSError out of from_pretrained.
ScesmataCheckTokensLimit(model, tokenizer, prompt) ==
    IF model \notin DOMAIN ScesmataModelMap
        THEN [raised |-> "TypeError", ok |-> FALSE, log |-> <<>>]
    ELSE IF ~tokenizer
        THEN [raised |-> "OSError", ok |-> FALSE, log |-> <<>>]
    ELSE IF prompt.tokens > ScesmataModelMap[model]
        THEN [raised |-> "none", ok |-> FALSE,
              log |-> <<<<"critical", "Prompt is too long">>>>]
    ELSE [raised |-> "none", ok |-> TRUE, log |-> <<>>]

\* generate(prompt) is called on a scesmata generator built for some model.
ScesmataCall ==
    /\ gpc \in {"NoCall", "Rejected", "Done", "Raised"}
    /\ gcalls < MaxGenCalls
    /\ gmodel' \in ScesmataModels
    /\ gtokenizer' \in BOOLEAN
    /\ gprompt' \in ScesmataPrompts
    /\ gcheck' = TRUE
    /\ graw' = <<>>
    /\ ganswer' = <<>>
    /\ invocations' = 0
    /\ glog' = <<>>
    /\ gcalls' = gcalls + 1
    /\ gpc' = "Idle"
    /\ UNCHANGED notGen

\* Line 39, first operand: _check_tokens_limit returns.
ScesmataCheckTokens ==
    /\ gpc = "Idle"
    /\ LET check == ScesmataCheckTokensLimit(gmodel, gtokenizer, gprompt)
       IN  /\ check.raised = "none"
           /\ gcheck' = check.ok
           /\ glog' = glog \o check.log
    /\ gpc' = "BudgetChecked"
    /\ UNCHANGED <<gmodel, gtokenizer, gprompt, graw, ganswer, invocations, gcalls>>
    /\ UNCHANGED notGen

\* Line 39, first operand: _check_tokens_limit raises, and so does generate.
ScesmataCheckRaise ==
    /\ gpc = "Idle"
    /\ ScesmataCheckTokensLimit(gmodel, gtokenizer, gprompt).raised # "none"
    /\ gpc' = "Raised"
    /\ UNCHANGED <<gmodel, gtokenizer, gprompt, gcheck, graw, ganswer, invocations,
                   glog, gcalls>>
    /\ UNCHANGED notGen

\* Lines 39-40: return "".
ScesmataReject ==
    /\ gpc = "BudgetChecked"
    /\ GenerateRejects(gcheck, gprompt)
    /\ ganswer' = EmptyAnswer
    /\ gpc' = "Rejected"
    /\ UNCHANGED <<gmodel, gtokenizer, gprompt, gcheck, graw, invocations, glog, gcalls>>
    /\ UNCHANGED notGen

\* Line 42: return self.llm.invoke(prompt), the raw answer.
ScesmataInvoke ==
    /\ gpc = "BudgetChecked"
    /\ ~GenerateRejects(gcheck, gprompt)
    /\ \E raw \in RawAnswers :
          /\ graw' = raw
          /\ ganswer' = raw
    /\ invocations' = invocations + 1
    /\ gpc' = "Done"
    /\ UNCHANGED <<gmodel, gtokenizer, gprompt, gcheck, glog, gcalls>>
    /\ UNCHANGED notGen

(***************************************************************************)
(* Part III - the orchestrator: the commands prompt and prompt_all         *)
(* (src/ragxiv/cli/cli.py, src/nerxiv/cli/cli.py) and run_prompt_paper     *)
(* (src/nerxiv/cli/run_prompt.py), with the per-document run log.          *)
(***************************************************************************)
\* The HDF5 files under data_path.
Docs == {"d1", "d2"}
\* Paths a user can hand to `prompt`: a document, a path with no file, and an
\* existing file that is not *.hdf5.
GhostPaper == "ghost.hdf5"
NotesPaper == "notes.txt"
SinglePapers == {"d1", GhostPaper, NotesPaper}
AllPapers == Docs \cup {GhostPaper, NotesPaper}

\* paper.name.endswith(".hdf5")
IsHdf5(paper) == paper # NotesPaper

\* State of the text entry of a document file: the entry is missing, holds
\* the empty string, holds only whitespace, or holds text.
TextKinds == {"missing", "empty", "blank", "ok"}

\* The keys of QUERY_REGISTRY.
QUERY_REGISTRY == {"material", "material_formula"}
\* QUERY_REGISTRY.get(query): (retriever_query, template)
RetrieverQueryOf(query) == <<"retriever_query", query>>
TemplateOf(query) == <<"template", query>>

\* The option sets of the commands that the model runs.
Configs ==
    {[retriever_model |-> "all-MiniLM-L6-v2", n_top_chunks |-> 5,
      model |-> "qwen3:32b", query |-> "material"],
     [retriever_model |-> "all-mpnet-base-v2", n_top_chunks |-> 5,
      model |-> "gpt-oss:20b", query |-> "material_formula"],
     [retriever_model |-> "all-MiniLM-L6-v2", n_top_chunks |-> 0,
      model |-> "qwen3:32b", query |-> "material"],
     [retriever_model |-> "all-MiniLM-L6-v2", n_top_chunks |-> 5,
      model |-> "qwen3:32b", query |-> "methods"]}

\* What the generative model answers in the orchestrator runs.
PromptRawAnswers == {<<"model">>, <<"Fe2O3">>}
\* Token counts of the built prompt in the orchestrator runs.
PromptTokenCounts == {TokensLimitQwen, TokensLimitQwen + 1}

\* f"run_{n:04d}": "run_" and the decimal digits of n, zero-padded to width 4.
RECURSIVE Digits(_)
Digits(n) == IF n < 10 THEN <<n>> ELSE Append(Digits(n \div 10), n % 10)
RECURSIVE ZeroPad(_, _)
ZeroPad(ds, width) == IF Len(ds) >= width THEN ds ELSE ZeroPad(<<0>> \o ds, width)
\* A faulty format: f"run_{n}", without the padding.
RunIdUnpadded(n) == <<"run_">> \o Digits(n)

RunId(n) == <<"run_">> \o ZeroPad(Digits(n), 4)

\* A faulty run id: always the first one, existing entries are not counted.
NextRunIdNotCounting(group) == RunId(0)

\* Lines 82-83 of run_prompt.py: the next run id from the number of keys.
NextRunId(group) == RunId(Cardinality(DOMAIN group))

\* Chunker(text).chunk_text(): the number of chunks (whitespace-only text
\* splits into no chunk).
ChunkCount(kind) == IF kind = "ok" THEN 2 ELSE 0

\* get_relevant_chunks (retriever.py 37-60): [] for no chunks, else the
\* n_top_chunks best chunks joined; "" stands for the empty join.
RelevantChunks(nchunks, n_top_chunks) ==
    IF nchunks = 0 THEN "[]"
    ELSE IF n_top_chunks = 0 THEN ""
    ELSE "context"

\* Truthiness of the context: `not text` in LLMGenerator.__init__.
ContextIsEmpty(ctx) == ctx \in {"[]", ""}

\* LLMGenerator.__init__ (generator.py 48-50): `if not text: raise ValueError`;
\* the exception raised by the construction, "none" if the object is built.
LLMGeneratorInit(text) ==
    IF ContextIsEmpty(text)
        THEN "ValueError: Text is required for LLM generation."
        ELSE "none"

\* The exception that leaves the with-block before generation, "none" if none
\* (f[arxiv_id]["arxiv_paper"]["text"], Chunker.__init__, LLMGenerator.__init__).
PaperException(kind, n_top_chunks) ==
    IF kind = "missing" THEN "KeyError"
    ELSE IF kind = "empty" THEN "ValueError: Text is required for chunking."
    ELSE LLMGeneratorInit(RelevantChunks(ChunkCount(kind), n_top_chunks))

\* The built prompt: prompt.build(text=text) / prompt_template(template, text=text).
BuiltPrompt(query, ctx) == <<"prompt", query, ctx>>

\* The attributes written when the run entry is created (lines 86-90).
RunAttrs(c) ==
    [retriever_model |-> c.retriever_model, model |-> c.model,
     n_top_chunks |-> c.n_top_chunks, query |-> c.query, timestamp |-> "now"]

\* The three datasets of the query group (lines 91-96; cli.py 125-130 stores
\* the template instead of the built prompt).
RunDatasets(im, c, ctx, ans) ==
    IF im = "nerxiv"
        THEN [retriever_query |-> RetrieverQueryOf(c.query),
              prompt |-> BuiltPrompt(c.query, ctx), answer |-> ans]
        ELSE [retriever_query |-> RetrieverQueryOf(c.query),
              template |-> TemplateOf(c.query), answer |-> ans]

\* The run entry after lines 84-96.
NewRun(im, c, ctx, ans) ==
    [attrs |-> RunAttrs(c), elapsed_time |-> "unset", group |-> c.query,
     datasets |-> RunDatasets(im, c, ctx, ans)]

\* A faulty sentinel test: any non-empty answer relocates the file.
IsModelAnswerAnyAnswer(ans) == ans # <<>>

\* Line 99: the sentinel test on the answer.
IsModelAnswer(ans) == ans = <<"model">>

\* All orders in which rglob may list the set S.
Orders(S) ==
    {o \in [1..Cardinality(S) -> S] : \A i, j \in DOMAIN o : i # j => o[i] # o[j]}

PromptInitFor(impls, texts) ==
    /\ impl \in impls
    /\ fileExists = [p \in AllPapers |-> p # GhostPaper]
    /\ fileDir = [p \in AllPapers |-> 0]
    /\ h5text \in texts
    /\ runsOf = [p \in AllPapers |-> << >>]
    /\ cpc = "idle"
    /\ cmd = "prompt"
    /\ cfg \in {c \in Configs : c.n_top_chunks = 5 /\ c.query = "material"}
    /\ papers = <<>>
    /\ cur = "d1"
    /\ context = ""
    /\ answer = <<>>
    /\ run_id = <<>>
    /\ echoes = <<>>
    /\ commands = 0
    /\ deletes = 0
    /\ touched = {}
    /\ attempted = <<>>
    /\ listing = <<>>
    /\ runsBefore = << >>
    /\ invokedModel = FALSE
    /\ movedFrom = -1
    /\ atMove = << >>
    /\ everAssigned = [p \in AllPapers |-> {}]
    /\ appends = [p \in AllPapers |-> 0]
    /\ deleted = [p \in AllPapers |-> FALSE]


\* Processing of paper p starts: the locals of the loop body are fresh.
EnterPaper(p) ==
    /\ cur' = p
    /\ context' = ""
    /\ answer' = <<>>
    /\ run_id' = <<>>
    /\ runsBefore' = runsOf[p]
    /\ invokedModel' = FALSE
    /\ movedFrom' = -1
    /\ atMove' = << >>

\* The current paper is over (processed or skipped): the loop takes the next
\* paper of the listing, or the command ends; out is what it has printed.
Advance(out) ==
    IF papers = <<>>
        THEN /\ cpc' = "done"
             /\ echoes' = IF cmd = "prompt" /\ impl = "ragxiv" /\ cpc = "paper"
                             THEN out
                             ELSE Append(out, "Processed arXiv papers")
             /\ UNCHANGED <<papers, cur, context, answer, run_id, runsBefore,
                            invokedModel, movedFrom, atMove>>
        ELSE /\ cpc' = "paper"
             /\ echoes' = out
             /\ papers' = Tail(papers)
             /\ EnterPaper(Head(papers))

\* The command `prompt` is run on one path (cli.py 74-92 / nerxiv cli.py 70-92).
PromptStart ==
    /\ cpc \in {"idle", "done", "aborted"}
    /\ commands < MaxCommands
    /\ commands' = commands + 1
    /\ cmd' = "prompt"
    /\ touched' = {}
    /\ attempted' = <<>>
    /\ listing' = <<>>
    /\ papers' = <<>>
    /\ \E c \in Configs, p \in SinglePapers :
          /\ cfg' = c
          /\ IF c.query \notin QUERY_REGISTRY
                THEN /\ echoes' = <<<<"Query not found in registry", QUERY_REGISTRY>>>>
                     /\ cpc' = "done"
                     /\ UNCHANGED <<cur, context, answer, run_id, runsBefore,
                                    invokedModel, movedFrom, atMove>>
                ELSE /\ echoes' = <<>>
                     /\ cpc' = "paper"
                     /\ EnterPaper(p)
    /\ UNCHANGED <<impl, fileExists, fileDir, h5text, runsOf, deletes, everAssigned,
                   appends, deleted>>
    /\ UNCHANGED notPrompt

\* A faulty prompt_all: the files are listed before the query is looked up.
PromptAllStartListingFirst ==
    /\ cpc \in {"idle", "done", "aborted"}
    /\ commands < MaxBatches
    /\ commands' = commands + 1
    /\ cmd' = "prompt_all"
    /\ attempted' = <<>>
    /\ \E c \in Configs, l \in Orders({d \in Docs : fileExists[d]}) :
          /\ cfg' = c
          /\ listing' = l
          /\ touched' = {l[i] : i \in DOMAIN l}
          /\ IF c.query \notin QUERY_REGISTRY
                THEN /\ echoes' = <<<<"Query not found in registry", QUERY_REGISTRY>>>>
                     /\ cpc' = "done"
                     /\ papers' = <<>>
                     /\ UNCHANGED <<cur, context, answer, run_id, runsBefore,
                                    invokedModel, movedFrom, atMove>>
                ELSE IF l = <<>>
                THEN /\ cpc' = "done"
                     /\ echoes' = <<"Processed arXiv papers">>
                     /\ papers' = <<>>
                     /\ UNCHANGED <<cur, context, answer, run_id, runsBefore,
                                    invokedModel, movedFrom, atMove>>
                ELSE /\ cpc' = "paper"
                     /\ echoes' = <<>>
                     /\ papers' = Tail(l)
                     /\ EnterPaper(Head(l))
    /\ UNCHANGED <<impl, fileExists, fileDir, h5text, runsOf, deletes, everAssigned,
                   appends, deleted>>
    /\ UNCHANGED notPrompt

\* The command `prompt_all` is run on data_path (cli.py 198-210 / nerxiv cli.py 150-163).
PromptAllStart ==
    /\ cpc \in {"idle", "done", "aborted"}
    /\ commands < MaxBatches
    /\ commands' = commands + 1
    /\ cmd' = "prompt_all"
    /\ attempted' = <<>>
    /\ \E c \in Configs :
          /\ cfg' = c
          /\ IF c.query \notin QUERY_REGISTRY
                THEN /\ echoes' = <<<<"Query not found in registry", QUERY_REGISTRY>>>>
                     /\ cpc' = "done"
                     /\ touched' = {}
                     /\ listing' = <<>>
                     /\ papers' = <<>>
                     /\ UNCHANGED <<cur, context, answer, run_id, runsBefore,
                                    invokedModel, movedFrom, atMove>>
                ELSE \E l \in Orders({d \in Docs : fileExists[d]}) :
                     /\ listing' = l
                     /\ touched' = {l[i] : i \in DOMAIN l}
                     /\ IF l = <<>>
                           THEN /\ cpc' = "done"
                                /\ echoes' = <<"Processed arXiv papers">>
                                /\ papers' = <<>>
                                /\ UNCHANGED <<cur, context, answer, run_id, runsBefore,
                                               invokedModel, movedFrom, atMove>>
                           ELSE /\ cpc' = "paper"
                                /\ echoes' = <<>>
                                /\ papers' = Tail(l)
                                /\ EnterPaper(Head(l))
    /\ UNCHANGED <<impl, fileExists, fileDir, h5text, runsOf, deletes, everAssigned,
                   appends, deleted>>
    /\ UNCHANGED notPrompt

\* The file is missing or is not *.hdf5: the paper is skipped
\* (cli.py 86-91, 211-216; run_prompt.py 46-51).
PaperSkip ==
    /\ cpc = "paper"
    /\ ~fileExists[cur] \/ ~IsHdf5(cur)
    /\ attempted' = Append(attempted, cur)
    /\ Advance(Append(echoes,
          IF ~fileExists[cur] THEN <<"does not exist", cur>>
                              ELSE <<"is not an HDF5 file", cur>>))
    /\ UNCHANGED <<impl, fileExists, fileDir, h5text, runsOf, cmd, cfg, commands,
                   deletes, touched, listing, everAssigned, appends, deleted>>
    /\ UNCHANGED notPrompt

\* Reading the text, Chunker(...) or LLMGenerator(...) raises: nothing catches
\* the exception, which ends the command (cli.py 92-110, 218-236; run_prompt.py 57-75).
PaperRaise ==
    /\ cpc = "paper"
    /\ fileExists[cur] /\ IsHdf5(cur)
    /\ PaperException(h5text[cur], cfg.n_top_chunks) # "none"
    /\ attempted' = Append(attempted, cur)
    /\ touched' = touched \cup {cur}
    /\ echoes' = Append(echoes, <<"Traceback", PaperException(h5text[cur], cfg.n_top_chunks)>>)
    /\ cpc' = "aborted"
    /\ UNCHANGED <<impl, fileExists, fileDir, h5text, runsOf, cmd, cfg, papers, cur,
                   context, answer, run_id, commands, deletes, listing, runsBefore,
                   invokedModel, movedFrom, atMove, everAssigned, appends, deleted>>
    /\ UNCHANGED notPrompt

\* Chunking, retrieval and generation (cli.py 92-111; run_prompt.py 57-77).
PaperGenerate ==
    /\ cpc = "paper"
    /\ fileExists[cur] /\ IsHdf5(cur)
    /\ PaperException(h5text[cur], cfg.n_top_chunks) = "none"
    /\ attempted' = Append(attempted, cur)
    /\ touched' = touched \cup {cur}
    /\ context' = RelevantChunks(ChunkCount(h5text[cur]), cfg.n_top_chunks)
    /\ \E tok \in BOOLEAN, n \in PromptTokenCounts, raw \in PromptRawAnswers :
          LET g == Generate(cfg.model, tok, [empty |-> FALSE, tokens |-> n], raw)
          IN  /\ answer' = g.answer
              /\ invokedModel' = g.invoked
    /\ cpc' = "generated"
    /\ UNCHANGED <<impl, fileExists, fileDir, h5text, runsOf, cmd, cfg, papers, cur,
                   run_id, echoes, commands, deletes, listing, runsBefore, movedFrom,
                   atMove, everAssigned, appends, deleted>>
    /\ UNCHANGED notPrompt

\* The run entry is created and filled (cli.py 113-130; run_prompt.py 79-96).
PaperStore ==
    /\ cpc = "generated"
    /\ LET rid == NextRunId(runsOf[cur])
       IN  /\ rid \notin DOMAIN runsOf[cur]
           /\ run_id' = rid
           /\ runsOf' = [runsOf EXCEPT ![cur] = @ @@ (rid :> NewRun(impl, cfg, context, answer))]
           /\ everAssigned' = [everAssigned EXCEPT ![cur] = @ \cup {rid}]
    /\ appends' = [appends EXCEPT ![cur] = @ + 1]
    /\ cpc' = "stored"
    /\ UNCHANGED <<impl, fileExists, fileDir, h5text, cmd, cfg, papers, cur, context,
                   answer, echoes, commands, deletes, touched, attempted, listing,
                   runsBefore, invokedModel, movedFrom, atMove, deleted>>
    /\ UNCHANGED notPrompt

\* create_group(run_id) finds the name taken and raises ValueError
\* (cli.py 118; run_prompt.py 84).
PaperStoreRaise ==
    /\ cpc = "generated"
    /\ NextRunId(runsOf[cur]) \in DOMAIN runsOf[cur]
    /\ echoes' = Append(echoes, <<"Traceback", "ValueError: name already exists">>)
    /\ cpc' = "aborted"
    /\ UNCHANGED <<impl, fileExists, fileDir, h5text, runsOf, cmd, cfg, papers, cur,
                   context, answer, run_id, commands, deletes, touched, attempted,
                   listing, runsBefore, invokedModel, movedFrom, atMove, everAssigned,
                   appends, deleted>>
    /\ UNCHANGED notPrompt

\* The sentinel test and the relocation (cli.py 132-137; run_prompt.py 98-103).
PaperMove ==
    /\ cpc = "stored"
    /\ IF IsModelAnswer(answer)
          THEN /\ fileDir' = [fileDir EXCEPT ![cur] = @ + 1]
               /\ movedFrom' = fileDir[cur]
               /\ atMove' = runsOf[cur][run_id]
          ELSE UNCHANGED <<fileDir, movedFrom, atMove>>
    /\ cpc' = "moved"
    /\ UNCHANGED <<impl, fileExists, h5text, runsOf, cmd, cfg, papers, cur, context,
                   answer, run_id, echoes, commands, deletes, touched, attempted,
                   listing, runsBefore, invokedModel, everAssigned, appends, deleted>>
    /\ UNCHANGED notPrompt

\* The end of the paper's processing: run_prompt_paper writes elapsed_time
\* (run_prompt.py 105-107); the loop goes on (cli.py 139-140, 265-266).
PaperFinish ==
    /\ cpc = "moved"
    /\ runsOf' = IF impl = "nerxiv"
                    THEN [runsOf EXCEPT ![cur][run_id].elapsed_time = "set"]
                    ELSE runsOf
    /\ Advance(echoes)
    /\ UNCHANGED <<impl, fileExists, fileDir, h5text, cmd, cfg, commands, deletes,
                   touched, attempted, listing, everAssigned, appends, deleted>>
    /\ UNCHANGED notPrompt

\* Out of band, between two commands: somebody deletes a run entry.
OutOfBandDeleteRun ==
    /\ cpc \in {"idle", "done", "aborted"}
    /\ deletes < MaxDeletes
    /\ deletes' = deletes + 1
    /\ \E p \in Docs : \E r \in DOMAIN runsOf[p] :
          /\ runsOf' = [runsOf EXCEPT ![p] = [x \in (DOMAIN @) \ {r} |-> @[x]]]
          /\ deleted' = [deleted EXCEPT ![p] = TRUE]
    /\ UNCHANGED <<impl, fileExists, fileDir, h5text, cpc, cmd, cfg, papers, cur,
                   context, answer, run_id, echoes, commands, touched, attempted,
                   listing, runsBefore, invokedModel, movedFrom, atMove, everAssigned,
                   appends>>
    /\ UNCHANGED notPrompt

\* Out of band, during prompt_all: a listed file disappears before its turn.
OutOfBandDeleteFile ==
    /\ cpc = "paper"
    /\ cmd = "prompt_all"
    /\ fileExists[cur]
    /\ fileExists' = [fileExists EXCEPT ![cur] = FALSE]
    /\ UNCHANGED <<impl, fileDir, h5text, runsOf, cpc, cmd, cfg, papers, cur, context,
                   answer, run_id, echoes, commands, deletes, touched, attempted,
                   listing, runsBefore, invokedModel, movedFrom, atMove, everAssigned,
                   appends, deleted>>
    /\ UNCHANGED notPrompt

(***************************************************************************)
(* Part IV - TextExtractor.delete_references                               *)
(* (src/ragxiv/text/arxiv_extractor.py 296-317; the same body is in        *)
(* src/ragxiv/fetch_and_extract.py 259-280 and src/scesmata/fetch.py).     *)
(* A text is the sequence of its lines: the text is the lines joined with  *)
(* "\n", so a text that ends with a newline has "" as its last line. Both   *)
(* patterns begin with "\n": a match starts at the newline before a line,   *)
(* text[:start] is the lines before that line and text[start:] the lines   *)
(* from it on.                                                             *)
(***************************************************************************)
MaxLines == 4

\* The lines of the texts: running text, the empty line, the headings of
\* pattern_start, a first citation, and headings of pattern_end.
LinePool == {"Main text.", "", "References", "[1] A. Author", "Appendices"}

\* pattern_start matches at the newline before line i: "\nReferences\n" and
\* "\nBibliography\n" need a newline on both sides of the heading,
\* "\n\[1\] *[A-Z]" a newline before the citation.
StartMatchesAt(lines, i) ==
    /\ i \in 2..Len(lines)
    /\ \/ lines[i] \in {"References", "Bibliography"} /\ i < Len(lines)
       \/ lines[i] = "[1] A. Author"

\* pattern_end matches at the newline before line i: the line begins with
\* "Supplemental Material", "Supplemental Information" or "Appendices".
EndMatchesAt(lines, i) ==
    /\ i \in 2..Len(lines)
    /\ lines[i] \in {"Supplemental Material:", "Supplemental Information", "Appendices"}

\* The least element of a set of line numbers, 0 for the empty set.
Leftmost(S) == IF S = {} THEN 0 ELSE CHOOSE i \in S : \A j \in S : i <= j

\* A faulty search that reports the last match of pattern_start.
SearchStartRightmost(lines) ==
    LET S == {i \in 1..Len(lines) : StartMatchesAt(lines, i)}
    IN  IF S = {} THEN 0 ELSE CHOOSE i \in S : \A j \in S : j <= i

\* re.search(pattern_start, text): the line of the leftmost match, 0 for None.
SearchStart(lines) ==
    Leftmost({i \in 1..Len(lines) : StartMatchesAt(lines, i)})

\* re.search(pattern_end, text): the search runs over the whole text.
SearchEnd(lines) ==
    Leftmost({i \in 1..Len(lines) : EndMatchesAt(lines, i)})

\* delete_references (lines 309-317).
DeleteReferencesOf(lines) ==
    LET start == SearchStart(lines)
        end == SearchEnd(lines)
    IN  IF start # 0
           THEN IF end # 0
                   THEN SubSeq(lines, 1, start - 1) \o SubSeq(lines, end, Len(lines))
                   ELSE SubSeq(lines, 1, start - 1)
           ELSE lines

TextInitFor(texts) ==
    /\ dr_pc = "text"
    /\ dr_text \in texts
    /\ dr_once = <<>>
    /\ dr_twice = <<>>

\* text = extractor.delete_references(text)
DeleteReferences ==
    /\ dr_pc = "text"
    /\ dr_once' = DeleteReferencesOf(dr_text)
    /\ dr_pc' = "once"
    /\ UNCHANGED <<dr_text, dr_twice>>
    /\ UNCHANGED notText

\* delete_references applied to its own result.
DeleteReferencesAgain ==
    /\ dr_pc = "once"
    /\ dr_twice' = DeleteReferencesOf(dr_once)
    /\ dr_pc' = "twice"
    /\ UNCHANGED <<dr_text, dr_once>>
    /\ UNCHANGED notText

(***************************************************************************)
(* Part V - CustomRetriever.get_relevant_chunks (src/ragxiv/retriever.py). *)
(***************************************************************************)
MaxChunks == 3
MaxSimilarity == 1
MaxTop == 2

\* chunk.page_content of the chunks.
ChunkTexts == {"c1", "c2", "c3"}

\* util.pytorch_cos_sim(query_embeddings, chunk_embeddings): the embedding, and
\* with it the similarity, is a function of the chunk's text.
Similarities == [ChunkTexts -> 0..MaxSimilarity]

\* A faulty ranking: ascending similarity.
RankingsAscending(cs, sim) ==
    {o \in Orders(DOMAIN cs) :
        \A i, j \in DOMAIN o : i < j => sim[cs[o[i]]] <= sim[cs[o[j]]]}

\* similarities.sort(descending=True).indices (line 53): torch sorts with
\* stable=False, which leaves the order of equal elements unspecified, so
\* every descending arrangement of the indices is a possible result.
Rankings(cs, sim) ==
    {o \in Orders(DOMAIN cs) :
        \A i, j \in DOMAIN o : i < j => sim[cs[o[i]]] >= sim[cs[o[j]]]}

\* The length of s[:k] for a sequence of n elements (Python slicing: a
\* negative k counts from the end).
SliceLen(n, k) ==
    IF k >= 0 THEN Min(k, n)
    ELSE IF n + k > 0 THEN n + k ELSE 0

\* Line 56: [chunks[i] for i in sorted_similarities.indices[:n_top_chunks]]
TopChunks(cs, order, k) == [i \in 1..SliceLen(Len(cs), k) |-> cs[order[i]]]

\* "\n\n".join(...): the texts with a separator between neighbours.
RECURSIVE JoinBlankLine(_)
JoinBlankLine(texts) ==
    IF Len(texts) <= 1 THEN texts
    ELSE <<Head(texts), "\n\n">> \o JoinBlankLine(Tail(texts))

\* What get_relevant_chunks returns: the empty list (line 42) or a string.
EmptyList == [list |-> TRUE, text |-> <<>>]
JoinedString(texts) == [list |-> FALSE, text |-> JoinBlankLine(texts)]

\* Retriever.__init__ (lines 14-23): self.query is a literal about scientific
\* methods; of **kwargs only "logger" is read, a query keyword is dropped.
HardCodedQuery == <<"retriever_query", "scientific methods">>
RetrieverInit(kwargs) == [query |-> HardCodedQuery]

\* What the orchestrators pass as query=retriever_query (cli.py 82, 100-102).
RegistryRetrieverQueries == {RetrieverQueryOf(q) : q \in QUERY_REGISTRY}

RetrInitFor(chunkLists, sims, tops, queries) ==
    /\ rpc = "built"
    /\ query_kwarg \in queries
    /\ self_query = RetrieverInit([query |-> query_kwarg]).query
    /\ encoded_query = "none"
    /\ r_chunks \in chunkLists
    /\ similarity \in sims
    /\ r_n_top_chunks \in tops
    /\ ranked = <<>>
    /\ relevant = EmptyList
    /\ rlog = <<>>

\* Lines 40-42: no chunks.
GetRelevantChunksNoChunks ==
    /\ rpc = "built"
    /\ r_chunks = <<>>
    /\ relevant' = EmptyList
    /\ rlog' = Append(rlog, <<"warning", "No chunks provided.">>)
    /\ rpc' = "returned"
    /\ UNCHANGED <<query_kwarg, self_query, encoded_query, r_chunks, similarity,
                   r_n_top_chunks, ranked>>
    /\ UNCHANGED notRetr

\* Lines 43-60: rank the chunks and join the best ones.
GetRelevantChunks ==
    /\ rpc = "built"
    /\ r_chunks # <<>>
    /\ \E order \in Rankings(r_chunks, similarity) :
          /\ ranked' = order
          /\ relevant' = JoinedString(TopChunks(r_chunks, order, r_n_top_chunks))
    /\ encoded_query' = self_query
    /\ rlog' = Append(rlog, <<"info", "Top chunks retrieved">>)
    /\ rpc' = "returned"
    /\ UNCHANGED <<query_kwarg, self_query, r_chunks, similarity, r_n_top_chunks>>
    /\ UNCHANGED notRetr

(***************************************************************************)
(* Part VI - arxiv_fetch_and_extract and ArxivFetcher.download_pdf         *)
(* (src/ragxiv/text/arxiv_extractor.py).                                   *)
(***************************************************************************)
\* self.data_folder / f"{arxiv_paper.id}.pdf"
PdfPathOf(id) == <<"data", id, ".pdf">>

\* What session.get / raise_for_status / iter_content can do for one paper:
\* succeed, or raise one of the requests.exceptions.RequestException kinds.
DownloadOutcomes == {"ok", "ConnectionError", "Timeout", "HTTPError"}

\* A faulty download_pdf: an HTTP error status is not caught and not logged.
DownloadPdfHttpErrorUnlogged(id, outcome) ==
    IF outcome = "ok"
        THEN [path |-> PdfPathOf(id), log |-> <<<<"info", "PDF downloaded">>>>]
    ELSE IF outcome = "HTTPError"
        THEN [path |-> PdfPathOf(id), log |-> <<>>]
        ELSE [path |-> "None", log |-> <<<<"error", "Failed to download PDF">>>>]

\* download_pdf (lines 197-226): the path it returns and the lines it logs.
DownloadPdf(id, outcome) ==
    IF outcome = "ok"
        THEN [path |-> PdfPathOf(id), log |-> <<<<"info", "PDF downloaded">>>>]
        ELSE [path |-> "None", log |-> <<<<"error", "Failed to download PDF">>>>]

\* TextExtractor._check_pdf_path (lines 244-260): str(None) is "None", a path
\* that does not exist and does not end in ".pdf".
CheckPdfPath(path) == path # "None"

\* TextExtractor.get_text (lines 262-294) for a loader that is available:
\* pages is what the loader extracts from the file, "" for a PDF without text.
GetText(path, pages) == IF ~CheckPdfPath(path) THEN "" ELSE pages

IngestInitFor(pcs) ==
    /\ i_pc \in pcs
    /\ i_call = 0
    /\ i_idx = 0
    /\ pdf_path = "None"
    /\ paper_text = <<>>
    /\ ilog = <<>>
    /\ dl_lines = <<>>
    /\ tried = {}
    /\ failed = {}

\* arxiv_fetch_and_extract is called when no call of it is running; it builds
\* the fetcher and enters fetcher.fetch() (lines 387-396).
IngestFetch ==
    /\ \/ fpc \in {"idle", "raised", "invalid"}
       \/ fpc = "returned" /\ i_call = calls /\ i_pc = "returned"
    /\ FetchBegin

\* fetch() has returned: line 397, and the loop over the papers starts.
IngestFetched ==
    /\ fpc = "returned"
    /\ i_call # calls
    /\ i_call' = calls
    /\ i_idx' = 0
    /\ paper_text' = [k \in DOMAIN result |-> ""]
    /\ ilog' = <<<<"info", "papers fetched from arXiv">>>>
    /\ i_pc' = "loop"
    /\ UNCHANGED <<pdf_path, dl_lines, tried, failed>>
    /\ UNCHANGED fetchVars
    /\ UNCHANGED notIngest

\* Line 404: pdf_path = fetcher.download_pdf(arxiv_paper=paper).
IngestDownload ==
    /\ fpc = "returned" /\ i_call = calls
    /\ i_pc = "loop"
    /\ i_idx < Len(result)
    /\ \E outcome \in DownloadOutcomes :
          LET id == result[i_idx + 1]
              d == DownloadPdf(id, outcome)
          IN  /\ pdf_path' = d.path
              /\ dl_lines' = d.log
              /\ ilog' = ilog \o d.log
              /\ tried' = tried \cup {id}
              /\ failed' = IF outcome = "ok" THEN failed ELSE failed \cup {id}
    /\ i_pc' = "downloaded"
    /\ UNCHANGED <<i_call, i_idx, paper_text>>
    /\ UNCHANGED fetchVars
    /\ UNCHANGED notIngest

\* Lines 407-420: get_text, and the rest of the loop body for this paper.
IngestExtract ==
    /\ fpc = "returned" /\ i_call = calls
    /\ i_pc = "downloaded"
    /\ \E pages \in {"", "pages"} :
          LET id == result[i_idx + 1]
              text == GetText(pdf_path, pages)
          IN  IF text = ""
                 THEN /\ ilog' = Append(ilog, <<"info", "No text extracted from the PDF.">>)
                      /\ failed' = failed \cup {id}
                      /\ UNCHANGED paper_text
                 ELSE /\ ilog' = Append(ilog, <<"info", "Text extracted and stored in model.">>)
                      /\ paper_text' = [paper_text EXCEPT ![i_idx + 1] = "cleaned text"]
                      /\ UNCHANGED failed
    /\ i_idx' = i_idx + 1
    /\ i_pc' = "loop"
    /\ UNCHANGED <<i_call, pdf_path, dl_lines, tried>>
    /\ UNCHANGED fetchVars
    /\ UNCHANGED notIngest

\* Line 421: return papers.
IngestReturn ==
    /\ fpc = "returned" /\ i_call = calls
    /\ i_pc = "loop"
    /\ i_idx = Len(result)
    /\ i_pc' = "returned"
    /\ UNCHANGED <<i_call, i_idx, pdf_path, paper_text, ilog, dl_lines, tried, failed>>
    /\ UNCHANGED fetchVars
    /\ UNCHANGED notIngest

(***************************************************************************)
(* Part VII - Chunker.chunk_text (src/ragxiv/chunker.py), which delegates  *)
(* to RecursiveCharacterTextSplitter with its default separators           *)
(* ["\n\n", "\n", " ", ""], keep_separator=True and strip_whitespace=True. *)
(* Texts are sequences of characters without line breaks.                  *)
(***************************************************************************)
MaxText == 4
MaxChunkSize == 3

Chars == {"a", "b", " "}

RECURSIVE Flatten(_)
Flatten(ss) == IF ss = <<>> THEN <<>> ELSE Head(ss) \o Flatten(Tail(ss))

RECURSIVE StripLeft(_)
StripLeft(s) == IF s # <<>> /\ Head(s) = " " THEN StripLeft(Tail(s)) ELSE s

RECURSIVE StripRight(_)
StripRight(s) ==
    IF s # <<>> /\ s[Len(s)] = " " THEN StripRight(SubSeq(s, 1, Len(s) - 1)) ELSE s

\* str.strip()
Strip(s) == StripRight(StripLeft(s))

\* _split_text_with_regex(text, " ", keep_separator=True): each separator opens
\* a new piece and stays at its start; empty pieces are dropped.
RECURSIVE SplitKeepingSeparator(_, _, _)
SplitKeepingSeparator(s, i, pieces) ==
    IF i > Len(s) THEN pieces
    ELSE IF s[i] = " " \/ pieces = <<>>
        THEN SplitKeepingSeparator(s, i + 1, Append(pieces, <<s[i]>>))
        ELSE SplitKeepingSeparator(s, i + 1,
                [pieces EXCEPT ![Len(pieces)] = Append(@, s[i])])

\* _split_text_with_regex: sep is " " or "" (list(text)).
SplitTextWithRegex(s, sep) ==
    IF sep = " " THEN SplitKeepingSeparator(s, 1, <<>>)
    ELSE [i \in 1..Len(s) |-> <<s[i]>>]

\* _join_docs with separator "": the joined pieces, stripped.
JoinDocs(docs) == Strip(Flatten(docs))

\* The while loop of _merge_splits: pieces leave the front of current_doc until
\* what is left fits the overlap and the next piece fits the chunk.
RECURSIVE PopFront(_, _, _, _, _)
PopFront(current_doc, total, len, size, overlap) ==
    IF total > overlap \/ (total + len > size /\ total > 0)
        THEN PopFront(Tail(current_doc), total - Len(Head(current_doc)), len, size, overlap)
        ELSE [current_doc |-> current_doc, total |-> total]

\* _merge_splits(splits, ""): m carries docs, current_doc and total.
RECURSIVE MergeSplitsFrom(_, _, _, _)
MergeSplitsFrom(splits, m, size, overlap) ==
    IF splits = <<>>
        THEN IF JoinDocs(m.current_doc) # <<>>
                THEN Append(m.docs, JoinDocs(m.current_doc)) ELSE m.docs
    ELSE LET d == Head(splits)
             closing == m.total + Len(d) > size /\ m.current_doc # <<>>
             docs2 == IF closing /\ JoinDocs(m.current_doc) # <<>>
                         THEN Append(m.docs, JoinDocs(m.current_doc)) ELSE m.docs
             kept == IF closing
                        THEN PopFront(m.current_doc, m.total, Len(d), size, overlap)
                        ELSE [current_doc |-> m.current_doc, total |-> m.total]
         IN  MergeSplitsFrom(Tail(splits),
                [docs |-> docs2,
                 current_doc |-> Append(kept.current_doc, d),
                 total |-> kept.total + Len(d)],
                size, overlap)

MergeSplits(splits, size, overlap) ==
    MergeSplitsFrom(splits, [docs |-> <<>>, current_doc |-> <<>>, total |-> 0], size, overlap)

\* The separator _split_text picks: the first of the list found in the text,
\* "" when none is.
SeparatorFor(s, separators) ==
    IF separators # <<>> /\ Head(separators) = " " /\ \E i \in DOMAIN s : s[i] = " "
        THEN [separator |-> " ", new_separators |-> Tail(separators)]
        ELSE [separator |-> "", new_separators |-> <<>>]

\* RecursiveCharacterTextSplitter._split_text; the loop over the splits is
\* SplitLoop: st carries _good_splits and final_chunks.
RECURSIVE SplitText(_, _, _, _)
RECURSIVE SplitLoop(_, _, _, _, _)
SplitLoop(splits, st, new_separators, size, overlap) ==
    IF splits = <<>>
        THEN IF st.good # <<>>
                THEN st.final \o MergeSplits(st.good, size, overlap) ELSE st.final
    ELSE LET s == Head(splits)
         IN  IF Len(s) < size
                THEN SplitLoop(Tail(splits), [st EXCEPT !.good = Append(@, s)],
                               new_separators, size, overlap)
                ELSE LET flushed == IF st.good # <<>>
                                       THEN st.final \o MergeSplits(st.good, size, overlap)
                                       ELSE st.final
                         other == IF new_separators = <<>> THEN <<s>>
                                  ELSE SplitText(s, new_separators, size, overlap)
                     IN  SplitLoop(Tail(splits), [good |-> <<>>, final |-> flushed \o other],
                                   new_separators, size, overlap)

SplitText(s, separators, size, overlap) ==
    LET pick == SeparatorFor(s, separators)
    IN  SplitLoop(SplitTextWithRegex(s, pick.separator), [good |-> <<>>, final |-> <<>>],
                  pick.new_separators, size, overlap)

\* Chunker.chunk_text (lines 18-44): the page_content of the chunks.
ChunkText(s, size, overlap) == SplitText(s, <<" ", "">>, size, overlap)

ChunkInitFor(texts, sizes, overlaps) ==
    /\ ch_text \in texts
    /\ chunk_size \in sizes
    /\ chunk_overlap \in {o \in overlaps : o <= chunk_size}
    /\ ch_pc = "built"
    /\ ch_chunks = <<>>
    /\ ch_log = <<>>

\* chunk_text(chunk_size, chunk_overlap) on a Chunker built with a non-empty text.
ChunkTextCall ==
    /\ ch_pc = "built"
    /\ ch_text # <<>>
    /\ ch_chunks' = ChunkText(ch_text, chunk_size, chunk_overlap)
    /\ ch_log' = Append(ch_log, <<"info", "Text chunked into parts">>)
    /\ ch_pc' = "chunked"
    /\ UNCHANGED <<ch_text, chunk_size, chunk_overlap>>
    /\ UNCHANGED notChunk

(***************************************************************************)
(* Part VIII - the time keeping of prompt_all (src/nerxiv/cli/cli.py) and  *)
(* run_prompt_paper (src/nerxiv/cli/run_prompt.py).  Time is counted in    *)
(* ticks of the clock that time.time() reads.                              *)
(***************************************************************************)
MaxTicks == 3
MaxPapers == 2

\* The clock reading when the command starts: seconds since the epoch, far
\* larger than any duration of the model.
Epoch == 1000

\* Line 105 of run_prompt.py: paper_time = time.time() - paper_time.
ElapsedSince(clock, arg) == clock - arg

\* Lines 44-54: the value of an early return.
EarlyReturn == 0

TimeInitFor(listings) ==
    /\ t_pc = "idle"
    /\ now = Epoch
    /\ start_time = 0
    /\ paper_time = 0
    /\ t_left \in listings
    /\ t_arg = 0
    /\ began = 0
    /\ timings = <<>>

\* The clock advances while the command runs.
Tick ==
    /\ t_pc \in {"loop", "paper"}
    /\ now < Epoch + MaxTicks
    /\ now' = now + 1
    /\ UNCHANGED <<t_pc, start_time, paper_time, t_left, t_arg, began, timings>>
    /\ UNCHANGED notTime

\* prompt_all is entered with a query of the registry: lines 151-162.
TimedPromptAll ==
    /\ t_pc = "idle"
    /\ start_time' = now
    /\ paper_time' = now
    /\ t_pc' = "loop"
    /\ UNCHANGED <<now, t_left, t_arg, began, timings>>
    /\ UNCHANGED notTime

\* Lines 163-174: run_prompt_paper is called with paper_time=paper_time.
TimedPaperCall ==
    /\ t_pc = "loop"
    /\ t_left > 0
    /\ t_arg' = paper_time
    /\ began' = now
    /\ t_pc' = "paper"
    /\ UNCHANGED <<now, start_time, paper_time, t_left, timings>>
    /\ UNCHANGED notTime

\* run_prompt_paper returns early (lines 44-54); prompt_all assigns the
\* returned value to paper_time.
TimedPaperEarlyReturn ==
    /\ t_pc = "paper"
    /\ paper_time' = EarlyReturn
    /\ t_left' = t_left - 1
    /\ t_pc' = "loop"
    /\ UNCHANGED <<now, start_time, t_arg, began, timings>>
    /\ UNCHANGED notTime

\* run_prompt_paper stores the run (lines 57-107): elapsed_time is computed
\* from its argument and returned; prompt_all assigns it to paper_time.
TimedPaperStore ==
    /\ t_pc = "paper"
    /\ LET elapsed == ElapsedSince(now, t_arg)
       IN  /\ timings' = Append(timings, [arg |-> t_arg, began |-> began,
                                          finished |-> now, elapsed_time |-> elapsed])
           /\ paper_time' = elapsed
    /\ t_left' = t_left - 1
    /\ t_pc' = "loop"
    /\ UNCHANGED <<now, start_time, t_arg, began>>
    /\ UNCHANGED notTime

\* An exception leaves run_prompt_paper and prompt_all.
TimedPaperRaise ==
    /\ t_pc = "paper"
    /\ t_pc' = "aborted"
    /\ UNCHANGED <<now, start_time, paper_time, t_left, t_arg, began, timings>>
    /\ UNCHANGED notTime

\* Lines 176-177: the loop is over.
TimedPromptAllEnd ==
    /\ t_pc = "loop"
    /\ t_left = 0
    /\ t_pc' = "done"
    /\ UNCHANGED <<now, start_time, paper_time, t_left, t_arg, began, timings>>
    /\ UNCHANGED notTime

(***************************************************************************)
(* Part IX - two writers appending a run to the log of the same document:  *)
(* the with-block of run_prompt_paper (src/nerxiv/cli/run_prompt.py 57-96) *)
(* and of prompt / prompt_all (src/ragxiv/cli/cli.py), run by two callers  *)
(* that nothing serializes.                                                *)
(***************************************************************************)
MaxAppends == 2

Writers == {"w1", "w2"}

FileIsOpen(w) == a_pc[w] \in {"open", "counted", "created"}

AppendInitFor(locks) ==
    /\ a_lock \in locks
    /\ a_log = <<>>
    /\ a_pc = [w \in Writers |-> "idle"]
    /\ a_run_id = [w \in Writers |-> "none"]
    /\ a_started = [w \in Writers |-> 0]
    /\ a_overlap = [w \in Writers |-> FALSE]
    /\ a_attempts = <<>>

\* with h5py.File(paper, "a") as f: the file is opened (line 57).
AppendOpen(w) ==
    /\ a_pc[w] \in {"idle", "raised"}
    /\ a_started[w] < MaxAppends
    /\ ~(a_lock /\ \E o \in Writers \ {w} : FileIsOpen(o))
    /\ a_pc' = [a_pc EXCEPT ![w] = "open"]
    /\ a_run_id' = [a_run_id EXCEPT ![w] = "none"]
    /\ a_started' = [a_started EXCEPT ![w] = @ + 1]
    /\ a_overlap' = [a_overlap EXCEPT ![w] = \E o \in Writers \ {w} : FileIsOpen(o)]
    /\ UNCHANGED <<a_lock, a_log, a_attempts>>
    /\ UNCHANGED notAppend

\* h5py.File(paper, "a") raises OSError: another writer holds the file lock.
AppendOpenRefused(w) ==
    /\ a_pc[w] \in {"idle", "raised"}
    /\ a_started[w] < MaxAppends
    /\ a_lock /\ \E o \in Writers \ {w} : FileIsOpen(o)
    /\ a_pc' = [a_pc EXCEPT ![w] = "raised"]
    /\ a_run_id' = [a_run_id EXCEPT ![w] = "none"]
    /\ a_started' = [a_started EXCEPT ![w] = @ + 1]
    /\ UNCHANGED <<a_lock, a_log, a_overlap, a_attempts>>
    /\ UNCHANGED notAppend

\* Lines 80-83: existing_runs = list(raw_answer_group.keys());
\* run_id = f"run_{len(existing_runs):04d}".
AppendCount(w) ==
    /\ a_pc[w] = "open"
    /\ a_run_id' = [a_run_id EXCEPT ![w] = NextRunId(a_log)]
    /\ a_attempts' = Append(a_attempts,
          [writer |-> w, run_id |-> NextRunId(a_log), overlap |-> a_overlap[w]])
    /\ a_pc' = [a_pc EXCEPT ![w] = "counted"]
    /\ UNCHANGED <<a_lock, a_log, a_started, a_overlap>>
    /\ UNCHANGED notAppend

\* Lines 84-96: create_group(run_id) and the entries of the run, when no
\* entry of that name exists.
AppendCreate(w) ==
    /\ a_pc[w] = "counted"
    /\ a_run_id[w] \notin DOMAIN a_log
    /\ a_log' = [n \in DOMAIN a_log \cup {a_run_id[w]} |->
                    IF n = a_run_id[w] THEN w ELSE a_log[n]]
    /\ a_pc' = [a_pc EXCEPT ![w] = "created"]
    /\ UNCHANGED <<a_lock, a_run_id, a_started, a_overlap, a_attempts>>
    /\ UNCHANGED notAppend

\* Line 84 when another writer created an entry of that name in between:
\* create_group raises ValueError (the writers share the open file), or this
\* writer's copy of the group replaces the other's when it is flushed (each
\* writer has its own handle): the last writer wins.
AppendCreateCollision(w) ==
    /\ a_pc[w] = "counted"
    /\ a_run_id[w] \in DOMAIN a_log
    /\ \/ /\ a_pc' = [a_pc EXCEPT ![w] = "raised"]
          /\ UNCHANGED a_log
       \/ /\ a_log' = [a_log EXCEPT ![a_run_id[w]] = w]
          /\ a_pc' = [a_pc EXCEPT ![w] = "created"]
    /\ UNCHANGED <<a_lock, a_run_id, a_started, a_overlap, a_attempts>>
    /\ UNCHANGED notAppend

\* The with-block is left and the file closed.
AppendClose(w) ==
    /\ a_pc[w] = "created"
    /\ a_pc' = [a_pc EXCEPT ![w] = "idle"]
    /\ UNCHANGED <<a_lock, a_log, a_run_id, a_started, a_overlap, a_attempts>>
    /\ UNCHANGED notAppend

\* The document texts of the initial states: texts of d1 crossed with texts of d2.
TextsOf(k1, k2) ==
    {t \in [AllPapers -> TextKinds] :
        /\ t["d1"] \in k1 /\ t["d2"] \in k2
        /\ t[GhostPaper] = "missing" /\ t[NotesPaper] = "missing"}

\* The parts a specification does not run stay in these states.
FetchIdleCatalogs == {<<>>}
PromptIdleTexts == TextsOf({"ok"}, {"ok"})
TextIdleTexts == {<<>>}
RetrIdleSimilarities == {[t \in ChunkTexts |-> 0]}

FetchInit ==
    /\ FetchInitFor(SeqsUpTo(EntryPool, MaxCatalog), BOOLEAN)
    /\ GenInitFor("deepseek-r1")
    /\ PromptInitFor({"ragxiv"}, PromptIdleTexts)
    /\ TextInitFor(TextIdleTexts)
    /\ RetrInitFor({<<>>}, RetrIdleSimilarities, {5}, {RetrieverQueryOf("material")})
    /\ IngestInitFor({"idle"})
    /\ ChunkInitFor({<<"a">>}, {1}, {0})
    /\ TimeInitFor({0})
    /\ AppendInitFor({FALSE})

FetchNext ==
    \/ FetchBegin
    \/ FetchPage
    \/ FetchEmptyPage
    \/ FetchPageRaise
    \/ FetchSave

SpecFetch == FetchInit /\ [][FetchNext]_vars

\* The fetch with a running loop: a call that has been entered keeps executing
\* (the interpreter runs the while loop until it is left); whether fetch() is
\* called again is up to the caller.
FetchLoopStep == FetchPage \/ FetchEmptyPage \/ FetchPageRaise \/ FetchSave

\* Its catalogs hold a new entry (a1), an entry already in the ledger (a2)
\* and the two kinds of rejected entries.
FetchLiveEntryPool == {e \in EntryPool : e.tail \in {"a1", "a2"}}

FetchLiveInit ==
    /\ FetchInitFor(SeqsUpTo(FetchLiveEntryPool, MaxCatalog), {TRUE})
    /\ GenInitFor("deepseek-r1")
    /\ PromptInitFor({"ragxiv"}, PromptIdleTexts)
    /\ TextInitFor(TextIdleTexts)
    /\ RetrInitFor({<<>>}, RetrIdleSimilarities, {5}, {RetrieverQueryOf("material")})
    /\ IngestInitFor({"idle"})
    /\ ChunkInitFor({<<"a">>}, {1}, {0})
    /\ TimeInitFor({0})
    /\ AppendInitFor({FALSE})

FetchLiveNext ==
    \/ FetchBegin
    \/ FetchPage
    \/ FetchEmptyPage
    \/ FetchPageRaise
    \/ FetchSave

SpecFetchLive == FetchLiveInit /\ [][FetchLiveNext]_vars /\ WF_vars(FetchLoopStep)

\* arxiv_fetch_and_extract over catalogs that may hold entries without a summary.
IngestEntryPool ==
    {e \in EntryPool : e.title = "T" /\ e.host /\ e.tail \in {"a1", "a2"}} \cup NoSummaryPool

IngestInit ==
    /\ FetchInitFor(SeqsUpTo(IngestEntryPool, MaxCatalog), BOOLEAN)
    /\ GenInitFor("deepseek-r1")
    /\ PromptInitFor({"ragxiv"}, PromptIdleTexts)
    /\ TextInitFor(TextIdleTexts)
    /\ RetrInitFor({<<>>}, RetrIdleSimilarities, {5}, {RetrieverQueryOf("material")})
    /\ IngestInitFor({"idle"})
    /\ ChunkInitFor({<<"a">>}, {1}, {0})
    /\ TimeInitFor({0})
    /\ AppendInitFor({FALSE})

IngestNext ==
    \/ IngestFetch
    \/ FetchPage
    \/ FetchPageInvalid
    \/ FetchEmptyPage
    \/ FetchPageRaise
    \/ FetchSave
    \/ IngestFetched
    \/ IngestDownload
    \/ IngestExtract
    \/ IngestReturn

SpecIngest == IngestInit /\ [][IngestNext]_vars

GenNext ==
    \/ GenCall
    \/ GenCheckTokens
    \/ GenReject
    \/ GenInvoke
    \/ GenClean
    \/ GenReturn

GenInit ==
    /\ FetchInitFor(FetchIdleCatalogs, {FALSE})
    /\ GenInitFor("deepseek-r1")
    /\ PromptInitFor({"ragxiv"}, PromptIdleTexts)
    /\ TextInitFor(TextIdleTexts)
    /\ RetrInitFor({<<>>}, RetrIdleSimilarities, {5}, {RetrieverQueryOf("material")})
    /\ IngestInitFor({"idle"})
    /\ ChunkInitFor({<<"a">>}, {1}, {0})
    /\ TimeInitFor({0})
    /\ AppendInitFor({FALSE})

SpecGen == GenInit /\ [][GenNext]_vars

\* The generate calls of the scesmata generator.
ScesmataInit ==
    /\ FetchInitFor(FetchIdleCatalogs, {FALSE})
    /\ GenInitFor("deepseek-r1")
    /\ PromptInitFor({"ragxiv"}, PromptIdleTexts)
    /\ TextInitFor(TextIdleTexts)
    /\ RetrInitFor({<<>>}, RetrIdleSimilarities, {5}, {RetrieverQueryOf("material")})
    /\ IngestInitFor({"idle"})
    /\ ChunkInitFor({<<"a">>}, {1}, {0})
    /\ TimeInitFor({0})
    /\ AppendInitFor({FALSE})

ScesmataNext ==
    \/ ScesmataCall
    \/ ScesmataCheckTokens
    \/ ScesmataCheckRaise
    \/ ScesmataReject
    \/ ScesmataInvoke

SpecScesmata == ScesmataInit /\ [][ScesmataNext]_vars

\* delete_references on the texts of up to MaxLines lines.
TextInit ==
    /\ FetchInitFor(FetchIdleCatalogs, {FALSE})
    /\ GenInitFor("deepseek-r1")
    /\ PromptInitFor({"ragxiv"}, PromptIdleTexts)
    /\ TextInitFor(SeqsUpTo(LinePool, MaxLines))
    /\ RetrInitFor({<<>>}, RetrIdleSimilarities, {5}, {RetrieverQueryOf("material")})
    /\ IngestInitFor({"idle"})
    /\ ChunkInitFor({<<"a">>}, {1}, {0})
    /\ TimeInitFor({0})
    /\ AppendInitFor({FALSE})

TextNext ==
    \/ DeleteReferences
    \/ DeleteReferencesAgain

SpecText == TextInit /\ [][TextNext]_vars

\* get_relevant_chunks on the chunk lists of up to MaxChunks chunks.
RetrInit ==
    /\ FetchInitFor(FetchIdleCatalogs, {FALSE})
    /\ GenInitFor("deepseek-r1")
    /\ PromptInitFor({"ragxiv"}, PromptIdleTexts)
    /\ TextInitFor(TextIdleTexts)
    /\ RetrInitFor(SeqsUpTo(ChunkTexts, MaxChunks), Similarities, (-1)..MaxTop,
                   RegistryRetrieverQueries)
    /\ IngestInitFor({"idle"})
    /\ ChunkInitFor({<<"a">>}, {1}, {0})
    /\ TimeInitFor({0})
    /\ AppendInitFor({FALSE})

RetrNext ==
    \/ GetRelevantChunksNoChunks
    \/ GetRelevantChunks

SpecRetr == RetrInit /\ [][RetrNext]_vars

\* Two writers of one document's run log, with and without file locking.
AppendInit ==
    /\ FetchInitFor(FetchIdleCatalogs, {FALSE})
    /\ GenInitFor("deepseek-r1")
    /\ PromptInitFor({"ragxiv"}, PromptIdleTexts)
    /\ TextInitFor(TextIdleTexts)
    /\ RetrInitFor({<<>>}, RetrIdleSimilarities, {5}, {RetrieverQueryOf("material")})
    /\ IngestInitFor({"idle"})
    /\ ChunkInitFor({<<"a">>}, {1}, {0})
    /\ TimeInitFor({0})
    /\ AppendInitFor(BOOLEAN)

AppendNext ==
    \/ \E w \in Writers : AppendOpen(w)
    \/ \E w \in Writers : AppendOpenRefused(w)
    \/ \E w \in Writers : AppendCount(w)
    \/ \E w \in Writers : AppendCreate(w)
    \/ \E w \in Writers : AppendCreateCollision(w)
    \/ \E w \in Writers : AppendClose(w)

SpecAppend == AppendInit /\ [][AppendNext]_vars

\* The time keeping of prompt_all over listings of up to MaxPapers papers.
TimeInit ==
    /\ FetchInitFor(FetchIdleCatalogs, {FALSE})
    /\ GenInitFor("deepseek-r1")
    /\ PromptInitFor({"ragxiv"}, PromptIdleTexts)
    /\ TextInitFor(TextIdleTexts)
    /\ RetrInitFor({<<>>}, RetrIdleSimilarities, {5}, {RetrieverQueryOf("material")})
    /\ IngestInitFor({"idle"})
    /\ ChunkInitFor({<<"a">>}, {1}, {0})
    /\ TimeInitFor(0..MaxPapers)
    /\ AppendInitFor({FALSE})

TimeNext ==
    \/ Tick
    \/ TimedPromptAll
    \/ TimedPaperCall
    \/ TimedPaperEarlyReturn
    \/ TimedPaperStore
    \/ TimedPaperRaise
    \/ TimedPromptAllEnd

SpecTime == TimeInit /\ [][TimeNext]_vars

\* The chunker over every non-empty text of at most MaxText characters.
ChunkInit ==
    /\ FetchInitFor(FetchIdleCatalogs, {FALSE})
    /\ GenInitFor("deepseek-r1")
    /\ PromptInitFor({"ragxiv"}, PromptIdleTexts)
    /\ TextInitFor(TextIdleTexts)
    /\ RetrInitFor({<<>>}, RetrIdleSimilarities, {5}, {RetrieverQueryOf("material")})
    /\ IngestInitFor({"idle"})
    /\ ChunkInitFor(SeqsUpTo(Chars, MaxText) \ {<<>>}, 1..MaxChunkSize, 0..MaxChunkSize)
    /\ TimeInitFor({0})
    /\ AppendInitFor({FALSE})

ChunkNext ==
    \/ ChunkTextCall

SpecChunk == ChunkInit /\ [][ChunkNext]_vars

\* One user running `prompt` on a document again and again.
PromptInit ==
    /\ FetchInitFor(FetchIdleCatalogs, {FALSE})
    /\ GenInitFor("deepseek-r1")
    /\ PromptInitFor({"ragxiv", "nerxiv"}, TextsOf(TextKinds, {"ok"}))
    /\ TextInitFor(TextIdleTexts)
    /\ RetrInitFor({<<>>}, RetrIdleSimilarities, {5}, {RetrieverQueryOf("material")})
    /\ IngestInitFor({"idle"})
    /\ ChunkInitFor({<<"a">>}, {1}, {0})
    /\ TimeInitFor({0})
    /\ AppendInitFor({FALSE})

PromptNext ==
    \/ PromptStart
    \/ PaperSkip
    \/ PaperRaise
    \/ PaperGenerate
    \/ PaperStore
    \/ PaperStoreRaise
    \/ PaperMove
    \/ PaperFinish
    \/ OutOfBandDeleteRun

SpecPrompt == PromptInit /\ [][PromptNext]_vars

\* Batches: `prompt_all` over the documents of data_path.
BatchInit ==
    /\ FetchInitFor(FetchIdleCatalogs, {FALSE})
    /\ GenInitFor("deepseek-r1")
    /\ PromptInitFor({"ragxiv", "nerxiv"}, TextsOf(TextKinds, TextKinds))
    /\ TextInitFor(TextIdleTexts)
    /\ RetrInitFor({<<>>}, RetrIdleSimilarities, {5}, {RetrieverQueryOf("material")})
    /\ IngestInitFor({"idle"})
    /\ ChunkInitFor({<<"a">>}, {1}, {0})
    /\ TimeInitFor({0})
    /\ AppendInitFor({FALSE})

BatchNext ==
    \/ PromptAllStart
    \/ PaperSkip
    \/ PaperRaise
    \/ PaperGenerate
    \/ PaperStore
    \/ PaperMove
    \/ PaperFinish
    \/ OutOfBandDeleteFile

SpecBatch == BatchInit /\ [][BatchNext]_vars

\* Both commands, on documents whose text is in place.
CliInit ==
    /\ FetchInitFor(FetchIdleCatalogs, {FALSE})
    /\ GenInitFor("deepseek-r1")
    /\ PromptInitFor({"ragxiv", "nerxiv"}, TextsOf({"ok"}, {"ok", "blank"}))
    /\ TextInitFor(TextIdleTexts)
    /\ RetrInitFor({<<>>}, RetrIdleSimilarities, {5}, {RetrieverQueryOf("material")})
    /\ IngestInitFor({"idle"})
    /\ ChunkInitFor({<<"a">>}, {1}, {0})
    /\ TimeInitFor({0})
    /\ AppendInitFor({FALSE})

CliNext ==
    \/ PromptStart
    \/ PromptAllStart
    \/ PaperSkip
    \/ PaperRaise
    \/ PaperGenerate
    \/ PaperStore
    \/ PaperMove
    \/ PaperFinish

SpecCli == CliInit /\ [][CliNext]_vars

(***************************************************************************)
(* Properties of the incremental fetch, checked under SpecFetch.           *)
(***************************************************************************)

\* The non-blank lines of a ledger file.
NonBlankLines(file) == {l \in SeqToSet(file) : l # ""}

\* C2: across sequential fetch calls on one ledger, (a) every id a call
\* returned is in the ledger from its return on, hence in what the next call
\* loads; (b) no id a call returns was returned by the previous returned call
\* or was in the ledger when the call began; (c) the set a call loads is
\* exactly the set of non-blank lines written to the file so far.
C2_LedgerSupersetAcrossCalls ==
    /\ fpc = "returned" => SeqToSet(result) \subseteq NonBlankLines(ledgerFile)
    /\ fpc = "paging" => prevResult \subseteq fetched_ids
    /\ fpc = "returned" =>
          SeqToSet(result) \cap (prevResult \cup NonBlankLines(ledgerAtStart)) = {}
    /\ (fpc = "paging" /\ requests = <<>>) =>
          fetched_ids = {l \in written : l # ""}

\* C2 witness: a second call returned new documents after a first call had
\* returned some.
C2_Witness ==
    /\ calls = 2
    /\ fpc = "returned"
    /\ result # <<>>
    /\ prevResult # {}

\* C6: a call that stops on a page with zero entries returns the documents
\* collected on its earlier pages and has appended their ids to the ledger.
C6_ExhaustionKeepsCollected ==
    (fpc = "returned" /\ exhausted) =>
        /\ result = new_papers
        /\ SeqToSet(new_papers) \subseteq NonBlankLines(ledgerFile)

\* C7: the ledger file is written at most once per call and never before the
\* pagination loop is over: while paging, and after a page request raised, the
\* file is what it was when the call began.
C7_LedgerUntouchedUntilLoopEnds ==
    /\ ledgerWrites <= 1
    /\ fpc \in {"paging", "raised"} =>
          /\ ledgerFile = ledgerAtStart
          /\ ledgerExists = existsAtStart
          /\ ledgerWrites = 0

\* C7 witness: a page request raised after an earlier page had collected a
\* document.
C7_Witness ==
    /\ fpc = "raised"
    /\ new_papers # <<>>
    /\ Len(requests) >= 2

\* The entry is dropped by the loop: its title contains "Error", or its id is
\* missing or does not contain the catalog host.
Dropped(e) == e.title = "Error" \/ ~e.host

\* The identifiers of the entries of a page that are not dropped.
KeptIds(entries) ==
    {ArxivIdOf(entries[i].tail) : i \in {j \in DOMAIN entries : ~Dropped(entries[j])}}

\* The number of error-level lines of a log.
ErrorLines(log) == Cardinality({i \in DOMAIN log : log[i][1] = "error"})

\* C20: each dropped entry of a page gives exactly one error-level log line
\* and no document, and the other entries of the page are still processed
\* (their ids are known after the page); the returned list and the lines
\* added to the ledger hold only ids of entries that are not dropped.
C20_DroppedEntriesLoggedAndSkipped ==
    /\ [][(fpc = "paging" /\ fpc' = "paging" /\ requests' # requests) =>
            LET req == requests'[Len(requests')]
                page == Page(catalog, req[1], req[2])
            IN  /\ ErrorLines(flog') - ErrorLines(flog) =
                      Cardinality({i \in DOMAIN page : Dropped(page[i])})
                /\ SeqToSet(new_papers') \ SeqToSet(new_papers) \subseteq KeptIds(page)
                /\ KeptIds(page) \subseteq fetched_ids']_vars
    /\ [](fpc = "returned" =>
            /\ SeqToSet(result) \subseteq KeptIds(catalog)
            /\ SeqToSet(ledgerFile) \ SeqToSet(ledgerAtStart) \subseteq KeptIds(catalog))

\* C20 witness: a call returned a document that came after a dropped entry
\* on the same page.
C20_Witness ==
    /\ fpc = "returned"
    /\ ErrorLines(flog) >= 1
    /\ \E r \in DOMAIN requests :
          LET page == Page(catalog, requests[r][1], requests[r][2])
          IN  /\ Len(page) = 2
              /\ Dropped(page[1])
              /\ ~Dropped(page[2])
              /\ ArxivIdOf(page[2].tail) \in SeqToSet(result)

(***************************************************************************)
(* Properties of the generation step, checked under SpecGen.               *)
(***************************************************************************)

\* The token count of the prompt can be compared with a declared limit: the
\* model has an entry in the map and its tokenizer loads.
Estimated == gmodel \in DOMAIN HuggingfaceModelMap /\ gtokenizer

\* C10 as stated: once generate has returned, a prompt over the declared
\* limit gave "" without any invocation, and every prompt at or under the
\* limit was passed to the model.
C10_BudgetDecidesInvocation ==
    (gpc \in {"Rejected", "Done"} /\ Estimated) =>
        IF gprompt.tokens > HuggingfaceModelMap[gmodel]
            THEN ganswer = <<>> /\ invocations = 0
            ELSE gcheck /\ invocations = 1

\* C10 amended: the same, with "passed to the model" only for non-empty
\* prompts; the empty prompt passes the check and gives "" without invocation.
C10_BudgetDecidesInvocationNonEmpty ==
    (gpc \in {"Rejected", "Done"} /\ Estimated) =>
        IF gprompt.tokens > HuggingfaceModelMap[gmodel]
            THEN ganswer = <<>> /\ invocations = 0
        ELSE IF gprompt.empty
            THEN gcheck /\ ganswer = <<>> /\ invocations = 0
        ELSE gcheck /\ invocations = 1

\* C10 witness: a non-empty prompt of exactly the declared size was passed to
\* the model.
C10_Witness ==
    /\ gpc = "Done"
    /\ Estimated
    /\ ~gprompt.empty
    /\ gprompt.tokens = HuggingfaceModelMap[gmodel]
    /\ invocations = 1

(***************************************************************************)
(* Properties of the run log, checked under SpecPrompt.                    *)
(***************************************************************************)

\* "run_" followed by k zero-padded to four digits, for k < 100.
RunName(k) == <<"run_", 0, 0, k \div 10, k % 10>>

\* C1: with no out-of-band deletion, the entries of a document's log are
\* run_0000 .. run_(k-1) after k appends, whatever options each append used,
\* and the entry an append creates is named after the number of entries that
\* were there before it.
C1_RunIdsCountFromZero ==
    /\ \A p \in AllPapers :
          ~deleted[p] => DOMAIN runsOf[p] = {RunName(k) : k \in 0..(appends[p] - 1)}
    /\ cpc \in {"stored", "moved"} =>
          /\ run_id = RunName(Cardinality(DOMAIN runsBefore))
          /\ ~deleted[cur] => run_id = RunName(appends[cur] - 1)

\* C1 witness: three appends to one log, made with different queries and
\* different generation and retriever models, gave run_0000, run_0001, run_0002.
C1_Witness ==
    /\ appends["d1"] = 3
    /\ ~deleted["d1"]
    /\ cpc = "stored"
    /\ run_id = <<"run_", 0, 0, 0, 2>>
    /\ \E r1, r2 \in DOMAIN runsOf["d1"] :
          /\ runsOf["d1"][r1].attrs.query # runsOf["d1"][r2].attrs.query
          /\ runsOf["d1"][r1].attrs.model # runsOf["d1"][r2].attrs.model
          /\ runsOf["d1"][r1].attrs.retriever_model # runsOf["d1"][r2].attrs.retriever_model

\* C3: an attempt whose prompt the token-budget check rejected (generate
\* returned "" without invoking the model) leaves the number of run entries of
\* the document as it was before the attempt.
C3_RejectedAttemptNotLogged ==
    (cpc \in {"generated", "stored", "moved"} /\ ~invokedModel) =>
        Cardinality(DOMAIN runsOf[cur]) = Cardinality(DOMAIN runsBefore)

\* C8: a run entry is never created under a name that was assigned before for
\* that document, also after out-of-band deletions.
C8_RunIdsNeverReused ==
    [][(cpc = "generated" /\ cpc' = "stored") => run_id' \notin everAssigned[cur]]_vars

\* The attributes and content entries a complete run record of the current
\* attempt has before elapsed_time is written.
WrittenBeforeMove(r) ==
    /\ r.attrs = [retriever_model |-> cfg.retriever_model, model |-> cfg.model,
                  n_top_chunks |-> cfg.n_top_chunks, query |-> cfg.query,
                  timestamp |-> "now"]
    /\ r.group = cfg.query
    /\ Cardinality(DOMAIN r.datasets) = 3
    /\ {"retriever_query", "answer"} \subseteq DOMAIN r.datasets
    /\ r.datasets.answer = <<"model">>

C4_BatchAttemptsEveryDocument ==
    (cmd = "prompt_all" /\ cpc \in {"done", "aborted"} /\ cfg.query \in QUERY_REGISTRY) =>
        SeqToSet(attempted) = SeqToSet(listing)

\* C5: a command given an unknown query prints the valid names and ends at
\* once: no file is listed, opened or attempted, and the files and the run logs
\* are as they were.
C5_UnknownQueryTouchesNothing ==
    /\ [](cfg.query \notin QUERY_REGISTRY =>
            /\ cpc = "done"
            /\ touched = {}
            /\ listing = <<>>
            /\ attempted = <<>>
            /\ echoes = <<<<"Query not found in registry", {"material", "material_formula"}>>>>)
    /\ [][(commands' # commands /\ cfg'.query \notin QUERY_REGISTRY) =>
            UNCHANGED <<fileExists, fileDir, h5text, runsOf>>]_vars

\* C5 witness: a prompt_all with an unknown query has ended while documents
\* with earlier runs are in place.
C5_Witness ==
    /\ cmd = "prompt_all"
    /\ cfg.query = "methods"
    /\ cpc = "done"
    /\ fileExists["d1"]
    /\ appends["d1"] > 0

(***************************************************************************)
(* Properties of the generation step inside the orchestrator, checked      *)
(* under SpecPrompt.                                                       *)
(***************************************************************************)

\* C11: when the context retrieved for the current document is empty ("" or
\* the [] of a retrieval over no chunks), the generation step gives the empty
\* string without invoking the model and nothing is raised, neither by the
\* construction of the generator nor by the generate call.
C11_EmptyContextFailsClosed ==
    (/\ cpc \in {"generated", "aborted"}
     /\ fileExists[cur] /\ IsHdf5(cur)
     /\ h5text[cur] \in {"blank", "ok"}
     /\ ContextIsEmpty(RelevantChunks(ChunkCount(h5text[cur]), cfg.n_top_chunks)))
        => /\ cpc = "generated"
           /\ answer = <<>>
           /\ ~invokedModel

(***************************************************************************)
(* Properties of one generate call, checked under SpecGen.                 *)
(***************************************************************************)

\* C12: one generate call follows Idle -> BudgetChecked -> {Rejected |
\* Invoked} -> Cleaned -> Done. The budget check comes before any invocation,
\* the model is invoked at most once per call, Rejected is terminal (the
\* result is "", nothing more happens in that call), and the answer is
\* cleaned only after an invocation.
C12_GenerateStateMachine ==
    /\ [][gpc' # gpc =>
            \/ gpc \in {"NoCall", "Rejected", "Done"} /\ gpc' = "Idle"
            \/ gpc = "Idle" /\ gpc' = "BudgetChecked"
            \/ gpc = "BudgetChecked" /\ gpc' \in {"Rejected", "Invoked"}
            \/ gpc = "Invoked" /\ gpc' = "Cleaned"
            \/ gpc = "Cleaned" /\ gpc' = "Done"]_vars
    /\ [][invocations' # invocations =>
            \/ gpc = "BudgetChecked" /\ gpc' = "Invoked" /\ invocations' = 1
            \/ gpc' = "Idle" /\ invocations' = 0]_vars
    /\ [][gpc = "Rejected" => gpc' = "Idle" /\ gcalls' = gcalls + 1]_vars
    /\ [](invocations <= 1)
    /\ [](gpc \in {"NoCall", "Idle", "BudgetChecked"} => invocations = 0)
    /\ [](gpc = "Rejected" => invocations = 0 /\ ganswer = <<>>)
    /\ [](gpc \in {"Invoked", "Cleaned", "Done"} => invocations = 1)
    /\ [](gpc = "Invoked" => ganswer = <<>>)

\* C12 witness: the second call on a generator ran through invocation and
\* cleanup to Done, and the cleanup changed the raw answer.
C12_Witness ==
    /\ gcalls = 2
    /\ gpc = "Done"
    /\ invocations = 1
    /\ ganswer # graw

\* C14: with the default patterns the cleaned answer is the text after the
\* first answer marker of the de-reasoned answer, whatever the letter case of
\* the marker (before and marker both gone); with no marker it is the
\* de-reasoned answer unchanged.
C14_MarkerCutInAnyLetterCase ==
    gpc \in {"Cleaned", "Done"} =>
        LET dereasoned == DeleteThinking(graw)
            start == FirstIn(dereasoned, 1, {"ANS", "ans"})
        IN  ganswer = IF start # 0
                         THEN SubSeq(dereasoned, start + 1, Len(dereasoned))
                         ELSE dereasoned

(***************************************************************************)
(* Properties of the scesmata generator, checked under SpecScesmata.       *)
(***************************************************************************)

\* The token count cannot be estimated: the model has no entry in the map or
\* its tokenizer cannot be loaded.
ScesmataUnavailable == gmodel \notin DOMAIN ScesmataModelMap \/ ~gtokenizer

\* C13: when the token count cannot be estimated, _check_tokens_limit logs
\* one event and returns True without raising, and generate invokes the model
\* for every non-empty prompt.
C13_EstimatorUnavailableProceeds ==
    (gpc \notin {"NoCall", "Idle"} /\ ScesmataUnavailable) =>
        /\ gpc # "Raised"
        /\ gcheck
        /\ Len(glog) = 1
        /\ (gpc \in {"Rejected", "Done"} /\ ~gprompt.empty) => invocations = 1

(***************************************************************************)
(* Properties of delete_references, checked under SpecText.                *)
(***************************************************************************)

\* The line of the leftmost pattern_end match strictly after line start, 0 if
\* there is none.
EndAfter(lines, start) ==
    Leftmost({i \in (start + 1)..Len(lines) : EndMatchesAt(lines, i)})

\* C15: when pattern_start matches, the supplemental pattern counts only
\* strictly after that match: with one there, the result is the text minus
\* the span from the start match to the supplemental match, else the text cut
\* at the start match. So the result is never longer than the text and is the
\* text with one contiguous span of lines deleted.
C15_SupplementalSearchedAfterStart ==
    dr_pc # "text" =>
        LET n == Len(dr_text)
            start == Leftmost({i \in 1..n : StartMatchesAt(dr_text, i)})
            end == EndAfter(dr_text, start)
        IN  /\ Len(dr_once) <= n
            /\ \E i \in 1..(n + 1) : \E j \in i..(n + 1) :
                  dr_once = SubSeq(dr_text, 1, i - 1) \o SubSeq(dr_text, j, n)
            /\ start # 0 =>
                  dr_once = IF end # 0
                               THEN SubSeq(dr_text, 1, start - 1) \o SubSeq(dr_text, end, n)
                               ELSE SubSeq(dr_text, 1, start - 1)

\* C16: delete_references is idempotent.
C16_DeleteReferencesIdempotent ==
    dr_pc = "twice" => dr_twice = dr_once

\* C17: on a text without a pattern_end match, the result is the text before
\* the leftmost pattern_start match, and the text itself if there is no such
\* match.
C17_TruncatesAtLeftmostStart ==
    (/\ dr_pc # "text"
     /\ \A i \in 1..Len(dr_text) : ~EndMatchesAt(dr_text, i)) =>
        \/ /\ \A i \in 1..Len(dr_text) : ~StartMatchesAt(dr_text, i)
           /\ dr_once = dr_text
        \/ \E i \in 1..Len(dr_text) :
              /\ StartMatchesAt(dr_text, i)
              /\ \A j \in 1..(i - 1) : ~StartMatchesAt(dr_text, j)
              /\ dr_once = SubSeq(dr_text, 1, i - 1)

\* C17 witness: a text with two pattern_start matches and no pattern_end
\* match was cut at the first of them.
C17_Witness ==
    /\ dr_pc = "once"
    /\ \A i \in 1..Len(dr_text) : ~EndMatchesAt(dr_text, i)
    /\ Cardinality({i \in 1..Len(dr_text) : StartMatchesAt(dr_text, i)}) = 2
    /\ dr_once # <<>>
    /\ Len(dr_once) < Len(dr_text)

(***************************************************************************)
(* Properties of the retriever, checked under SpecRetr.                    *)
(***************************************************************************)

\* The number of chunks that contribute to a joined text.
Contributing(text) == (Len(text) + 1) \div 2

\* Similarity of the chunk at position i of the chunk list.
SimilarityAt(i) == similarity[r_chunks[i]]

\* The first min(n_top_chunks, number of chunks) chunks in ranked order are
\* returned, joined with a blank line, and no chunk ranked after a returned
\* chunk is more similar to the query than it.
TopByDescendingSimilarity ==
    LET n == Len(r_chunks)
        m == Min(r_n_top_chunks, n)
    IN  /\ ~relevant.list
        /\ Contributing(relevant.text) <= m
        /\ relevant.text = JoinBlankLine([i \in 1..m |-> r_chunks[ranked[i]]])
        /\ \A i \in 1..m : \A j \in 1..n :
              i < j => SimilarityAt(ranked[i]) >= SimilarityAt(ranked[j])

\* C18 as stated: for every non-empty chunk list and every n_top_chunks.
C18_TopChunksByDescendingSimilarity ==
    (rpc = "returned" /\ r_chunks # <<>>) => TopByDescendingSimilarity

\* C18 amended: for every non-empty chunk list and n_top_chunks >= 0; a
\* negative n_top_chunks drops that many chunks from the end of the ranking.
C18_TopChunksByDescendingSimilarityNonNegative ==
    (rpc = "returned" /\ r_chunks # <<>>) =>
        IF r_n_top_chunks >= 0
            THEN TopByDescendingSimilarity
            ELSE Contributing(relevant.text) =
                    IF Len(r_chunks) + r_n_top_chunks > 0
                        THEN Len(r_chunks) + r_n_top_chunks
                        ELSE 0

\* C18 witness: two of three chunks were returned, and the most similar
\* chunk is not the first of the list.
C18_Witness ==
    /\ rpc = "returned"
    /\ Len(r_chunks) = 3
    /\ r_n_top_chunks = 2
    /\ Contributing(relevant.text) = 2
    /\ SimilarityAt(1) < SimilarityAt(3)
    /\ relevant.text[1] = r_chunks[3]

\* The ranking of a stable descending sort: among equally similar chunks the
\* one that comes first in the chunk list is ranked first.
StableRanking ==
    CHOOSE o \in Rankings(r_chunks, similarity) :
        \A i, j \in DOMAIN o :
            (i < j /\ SimilarityAt(o[i]) = SimilarityAt(o[j])) => o[i] < o[j]

\* C19: equally similar chunks are returned in their order of first
\* occurrence in the chunk list, so the context is a function of the chunk
\* list and the similarities: the one that the stable ranking gives.
C19_TiesKeepFirstOccurrenceOrder ==
    (rpc = "returned" /\ r_chunks # <<>>) =>
        relevant = JoinedString(TopChunks(r_chunks, StableRanking, r_n_top_chunks))

\* The entries of the pages the current call has requested.
RequestedEntries ==
    UNION {SeqToSet(Page(catalog, requests[k][1], requests[k][2])) : k \in DOMAIN requests}

\* The requested entries that have a valid identifier, unknown when the call
\* began and carried by no collected document, and no summary.
NoSummaryEntries ==
    {e \in RequestedEntries :
        /\ e.title # "Error" /\ e.host /\ ~e.summary
        /\ ArxivIdOf(e.tail) \notin LoadLedger(existsAtStart, ledgerAtStart)
        /\ ArxivIdOf(e.tail) \notin SeqToSet(new_papers)}

\* C21: when a fetch call is over without a transport failure and without
\* having collected max_results documents (so that every entry of every page
\* it requested was reached), each entry with a valid identifier and no
\* summary was dropped: the call returned, logged an error line for the
\* entry, and did not add its identifier to the ledger.
C21_NoSummaryEntryDropped ==
    (fpc \in {"returned", "invalid"} /\ Len(new_papers) < max_results
                                     /\ NoSummaryEntries # {}) =>
        /\ fpc = "returned"
        /\ \E k \in DOMAIN flog : flog[k][1] = "error"
        /\ \A e \in NoSummaryEntries :
              ArxivIdOf(e.tail) \notin LoadLedger(ledgerExists, ledgerFile)

\* C22: download_pdf does not raise on a transport failure.  Right after it
\* returned, a failed download has logged exactly one error line and returned
\* the null path, and a successful one has logged exactly one info line and
\* returned <folder>/<id>.pdf; the loop step that follows a null path leaves
\* the text of every paper as it was and moves on to the next paper; the
\* text of a paper whose download failed is empty.
C22_DownloadFailureIsLoggedAndSkipped ==
    /\ [](i_pc = "downloaded" =>
            /\ Len(dl_lines) = 1
            /\ IF result[i_idx + 1] \in failed
                  THEN pdf_path = "None" /\ dl_lines[1][1] = "error"
                  ELSE pdf_path = <<"data", result[i_idx + 1], ".pdf">>
                       /\ dl_lines[1][1] = "info")
    /\ [][(i_pc = "downloaded" /\ pdf_path = "None") =>
            /\ i_pc' = "loop"
            /\ i_idx' = i_idx + 1
            /\ paper_text' = paper_text
            /\ paper_text[i_idx + 1] = ""]_vars

\* C22 witness: of two fetched papers the download of the first failed, its
\* text stayed empty, and the second was downloaded and its text stored.
C22_Witness ==
    /\ fpc = "returned" /\ i_call = calls
    /\ i_pc = "returned"
    /\ Len(result) = 2
    /\ result[1] \in failed /\ result[2] \notin failed
    /\ paper_text = <<"", "cleaned text">>
    /\ \E k \in DOMAIN ilog : ilog[k] = <<"error", "Failed to download PDF">>

\* The length of the longest prefix of chunk that is also a suffix of prev.
SharedPrefix(prev, chunk) ==
    CHOOSE k \in 0..Min(Len(prev), Len(chunk)) :
        /\ SubSeq(chunk, 1, k) = SubSeq(prev, Len(prev) - k + 1, Len(prev))
        /\ \A j \in (k + 1)..Min(Len(prev), Len(chunk)) :
              SubSeq(chunk, 1, j) # SubSeq(prev, Len(prev) - j + 1, Len(prev))

\* The chunks concatenated in order, each without the prefix it shares with
\* the end of the chunk before it.
RECURSIVE Reconstructed(_, _)
Reconstructed(prev, cs) ==
    IF cs = <<>> THEN <<>>
    ELSE LET c == Head(cs)
         IN  SubSeq(c, SharedPrefix(prev, c) + 1, Len(c)) \o Reconstructed(c, Tail(cs))

\* C23: for a non-empty text and chunk_overlap < chunk_size the chunks, with
\* the overlaps removed, reconstruct the source text character by character.
C23_ChunksReconstructText ==
    (ch_pc = "chunked" /\ chunk_overlap < chunk_size) =>
        Reconstructed(<<>>, ch_chunks) = ch_text

\* C24: a fetch call collects and returns at most max_results documents, with
\* pairwise distinct identifiers, and every page request asks the catalog for
\* at most min(batch_size, max_results - collected) entries.
C24_AtMostNDistinctAndPagesBounded ==
    /\ [](/\ Len(new_papers) <= max_results
          /\ \A i, j \in DOMAIN new_papers : new_papers[i] = new_papers[j] => i = j
          /\ fpc = "returned" =>
                /\ Len(result) <= max_results
                /\ \A i, j \in DOMAIN result : result[i] = result[j] => i = j)
    /\ [][(fpc = "paging" /\ requests' # requests) =>
            /\ Len(requests') = Len(requests) + 1
            /\ requests'[Len(requests')][2]
                  <= Min(batch_size, max_results - Len(new_papers))]_vars

\* C24 witness: a call for two documents with pages of two returned two
\* documents from a catalog that lists one identifier twice; its second page
\* asked for the one document still wanted.
C24_Witness ==
    /\ fpc = "returned"
    /\ max_results = 2 /\ batch_size = 2
    /\ Len(result) = 2
    /\ Len(requests) = 2 /\ requests[2][2] = 1
    /\ \E i, j \in DOMAIN catalog :
          i < j /\ ArxivIdOf(catalog[i].tail) = ArxivIdOf(catalog[j].tail)

C26_RequestedRangesContiguous ==
    /\ requests # <<>> => requests[1][1] = 0
    /\ \A k \in 1..(Len(requests) - 1) :
          requests[k + 1][1] = requests[k][1] + requests[k][2]

\* C27: ledger membership does not depend on download success.  When fetch()
\* has returned inside arxiv_fetch_and_extract every returned identifier is in
\* the ledger, before and after any download; an identifier whose download or
\* text extraction failed stays in the ledger; and no later fetch call
\* collects or returns it again.
C27_LedgerIndependentOfDownload ==
    LET ledger == LoadLedger(ledgerExists, ledgerFile)
    IN  /\ fpc = "returned" => SeqToSet(result) \subseteq ledger
        /\ tried \subseteq ledger
        /\ failed \subseteq ledger
        /\ fpc = "paging" => SeqToSet(new_papers) \cap failed = {}
        /\ (fpc = "returned" /\ i_call # calls) => SeqToSet(result) \cap failed = {}

\* C27 witness: the download of a1 failed in a first call; a second call over
\* the same catalog, where a1 comes first, returned a2 only.
C27_Witness ==
    /\ calls = 2
    /\ fpc = "returned" /\ i_call # calls
    /\ "a1" \in failed
    /\ catalog # <<>> /\ catalog[1].tail = "a1" /\ catalog[1].summary
    /\ result = <<"a2">>

\* C28: the query text the retriever encodes to rank the chunks is the
\* retriever_query of the selected registry entry, which the orchestrator
\* passed to the retriever and records in the run entry.
C28_RanksAgainstRegistryQuery ==
    (rpc = "returned" /\ r_chunks # <<>>) => encoded_query = query_kwarg

\* C29: for every document processed by prompt_all the paper_time argument
\* of its run_prompt_paper call was a reading of the clock, not a duration,
\* and the elapsed_time stored with its run is the wall-clock time of the
\* document: it covers the time between the entry of the call and the
\* completion of the run and reaches back no further than the start of the
\* command (where the clock of the first document is read).
C29_ElapsedTimeIsPerDocumentWallClock ==
    \A k \in DOMAIN timings :
        /\ timings[k].arg >= Epoch
        /\ timings[k].elapsed_time >= timings[k].finished - timings[k].began
        /\ timings[k].elapsed_time <= timings[k].finished - start_time

\* C30: run-id assignment is not atomic.  Two appends compute the same run
\* id only when they were not serialized: one of them opened the file while
\* another writer had it open.  Appends of which none overlaps another get
\* pairwise distinct run ids.
C30_SameRunIdOnlyWhenUnserialized ==
    \A i, j \in DOMAIN a_attempts :
        (i < j /\ a_attempts[i].run_id = a_attempts[j].run_id) =>
            (a_attempts[i].overlap \/ a_attempts[j].overlap)

\* C30 witness: without file locking both writers counted the same number
\* of entries and computed the same run id; the entry in the file is the
\* second writer's.
C30_Witness ==
    /\ ~a_lock
    /\ Len(a_attempts) = 2
    /\ a_attempts[1].writer # a_attempts[2].writer
    /\ a_attempts[1].run_id = a_attempts[2].run_id
    /\ a_run_id["w1"] = a_run_id["w2"]
    /\ a_pc["w1"] = "created" /\ a_pc["w2"] = "created"
    /\ DOMAIN a_log = {a_run_id["w1"]}
    /\ a_log[a_run_id["w1"]] = a_attempts[2].writer

====
